---- MODULE Spec2Model ----
(***************************************************************************)
(* Lead Research Copilot: the enrichment pipeline                          *)
(* (AdvancedLeadResearchService.conductAdvancedResearch) and the services  *)
(* it drives: DataQualityService (quality assessment, deduplication and    *)
(* merge), EmailVerificationService, LeadScoringService.                   *)
(*                                                                         *)
(* Conventions of the model                                                *)
(*  - a JavaScript string is a sequence of one-character strings; the     *)
(*    empty sequence stands for a missing (undefined/null) or empty        *)
(*    string, which the code treats alike (`x &&`, isFieldComplete);       *)
(*  - a missing number is Undefined; `x || d` is OrElse(x, d);             *)
(*  - ratings and thresholds are kept in tenths (6.5 is 65, 70 is 700),    *)
(*    because the code mixes 6.5, 7.0 and whole numbers up to 100.         *)
(*                                                                         *)
(* The module holds several specifications over one set of variables:      *)
(*   Spec        a whole research run, stage by stage                      *)
(*   DedupSpec   processLeads on a list of raw candidates                  *)
(*   SimSpec     calculateSimilarity while fields get populated            *)
(*   ScoreSpec   quality metrics and composite scoring of one lead         *)
(***************************************************************************)
EXTENDS Integers, Sequences, FiniteSets, TLC

VARIABLES
    \* a research run (conductAdvancedResearch)
    pc,                   \* the step the run has completed
    settled,              \* what Promise.allSettled(discoveryTasks) resolved to
    rawLeads,             \* discoverLeadsFromMultipleSources's result
    cleanedLeads,         \* DataQualityService.processLeads's result
    verifications,        \* verifyContact's verdict for each cleaned lead
    verifiedLeads,        \* verifyContactInformation's result
    enrichedLeads,        \* enrichWithCompanyIntelligence's result
    socialEnrichedLeads,  \* analyzeSocialSignals's result
    scoredLeads,          \* scoreAndQualifyLeads's result
    prioritizedLeads,     \* prioritizeLeads's result
    finalLeads,           \* the list the run returns
    targetCount,          \* params.targetCount, Undefined when not passed
    qualityThreshold,     \* params.qualityThreshold, Undefined when not passed
    \* calculateSimilarity on a pair
    lead1, lead2,         \* the two leads calculateSimilarity compares
    prevScore,            \* the score before the last field was populated
    lastField,            \* the field populated last ("none" at the start)
    \* LeadScoringService.scoreLead and calculateQualityMetrics on lead1
    scoreIcp,             \* the ICPDetails the lead is scored against
    leadMetrics,          \* calculateQualityMetrics's result, <<>> before it ran
    leadScore,            \* calculateCompositeScore's result, <<>> before it ran
    \* the jobs of a run in the rate limiter (Bottleneck, maxConcurrent 3)
    stage,                \* the stage whose jobs the run is awaiting
    jobs,                 \* per stage, the state of the job of each task
    inFlight,             \* per job of the stage, its external calls in flight
    hasEmail,             \* per lead, whether it carries an email
    cancelRequested,      \* the caller has asked for the run to stop
    \* the loop of deduplicateLeads
    qualityAssessedList,  \* the leads the loop goes through
    uniqueLeads,          \* the records accepted so far
    leadIndex,            \* how many leads the loop has been through
    \* verifyContact on lead1, the external providers one call at a time
    dnsAnswer,            \* what resolveMx does for the domain
    providerAnswers,      \* per provider, what its API does for the email
    called,               \* the providers externalVerification has called
    externalResult,       \* <<result>> once externalVerification returned
    verdict,              \* <<result>> once combineVerificationResults ran
    \* one per-item stage: its tasks in the limiter and Promise.all over them
    taskStage,            \* the stage that mapped its input to tasks
    taskInput,            \* the list the stage was called with
    taskResults,          \* per task, <<>> while pending, <<lead>> once settled
    completed,            \* the task indices in the order they settled
    stageOutput,          \* <<list>> once the stage's promise resolved
    \* POST /research/:campaignId and its background run
    campaignStatus,       \* campaign.status in the database
    runPc,                \* per request, where it and its background run stand
    writes,               \* per run, the statuses it has written
    leadsSaved,           \* per run, createMany has stored its leads
    thrown                \* per run, the call that threw ("none" so far)

stageVars ==
    <<verifications, verifiedLeads, enrichedLeads, socialEnrichedLeads,
      scoredLeads, prioritizedLeads, finalLeads>>
paramVars == <<targetCount, qualityThreshold>>
runVars == <<pc, settled, rawLeads, cleanedLeads, stageVars, paramVars>>
scoreVars == <<scoreIcp, leadMetrics, leadScore>>
limiterVars == <<stage, jobs, inFlight, hasEmail, cancelRequested>>
simVars == <<lead1, lead2, prevScore, lastField, scoreVars, limiterVars>>
dedupVars == <<qualityAssessedList, uniqueLeads, leadIndex>>

contactVars == <<dnsAnswer, providerAnswers, called, externalResult, verdict>>

taskVars == <<taskStage, taskInput, taskResults, completed, stageOutput>>

campaignVars == <<campaignStatus, runPc, writes, leadsSaved, thrown>>

asyncVars == <<taskVars, campaignVars>>

vars == <<runVars, simVars, dedupVars, contactVars, asyncVars>>

(***************************************************************************)
(* Bounds                                                                  *)
(***************************************************************************)
MaxCands == 2

\* the number of leads the loop of deduplicateLeads goes through
LoopLeads == 3

\* the number of scored leads prioritizeLeads is given
SortLeads == 3

\* the number of leads a run carries through its per-lead stages
NumLeads == 4

(***************************************************************************)
(* JavaScript values                                                       *)
(***************************************************************************)
Undefined == 0 - 1

IsTruthyNum(x) == x # Undefined /\ x # 0

\* `x` where the code has `x || d`: a falsy number is kept.
WithoutDefault(x, d) == x

\* x || d on numbers
OrElse(x, d) == IF IsTruthyNum(x) THEN x ELSE d

Max(a, b) == IF a >= b THEN a ELSE b

Min(a, b) == IF a <= b THEN a ELSE b

Range(s) == {s[i] : i \in 1..Len(s)}

\* String.prototype.toLowerCase on the alphabet of the model
UpperLetters ==
    <<"A", "B", "C", "D", "E", "F", "G", "H", "I", "J", "K", "L", "M",
      "N", "O", "P", "Q", "R", "S", "T", "U", "V", "W", "X", "Y", "Z">>

LowerLetters ==
    <<"a", "b", "c", "d", "e", "f", "g", "h", "i", "j", "k", "l", "m",
      "n", "o", "p", "q", "r", "s", "t", "u", "v", "w", "x", "y", "z">>

LowerMap ==
    [c \in Range(UpperLetters) |->
        LowerLetters[CHOOSE i \in 1..Len(UpperLetters) : UpperLetters[i] = c]]

LowerChar(c) == IF c \in DOMAIN LowerMap THEN LowerMap[c] ELSE c

ToLowerCase(s) == [i \in 1..Len(s) |-> LowerChar(s[i])]

RECURSIVE TrimStart(_)
TrimStart(s) ==
    IF s # <<>> /\ Head(s) = " " THEN TrimStart(Tail(s)) ELSE s

RECURSIVE TrimEnd(_)
TrimEnd(s) ==
    IF s # <<>> /\ s[Len(s)] = " " THEN TrimEnd(SubSeq(s, 1, Len(s) - 1)) ELSE s

\* String.prototype.trim
Trim(s) == TrimEnd(TrimStart(s))

Digits == {"0", "1", "2", "3", "4", "5", "6", "7", "8", "9"}

IsDigit(c) == c \in Digits

\* phoneNumber.replace(/\D/g, '')
CleanPhone(s) == SelectSeq(s, IsDigit)

\* sub occurs in s at position i
OccursAt(s, sub, i) ==
    /\ i + Len(sub) - 1 <= Len(s)
    /\ SubSeq(s, i, i + Len(sub) - 1) = sub

\* String.prototype.includes
Includes(s, sub) == \E i \in 1..(Len(s) + 1) : OccursAt(s, sub, i)

\* String.prototype.startsWith
StartsWith(s, sub) == OccursAt(s, sub, 1)

\* String.prototype.endsWith
EndsWith(s, sub) == Len(sub) <= Len(s) /\ OccursAt(s, sub, Len(s) - Len(sub) + 1)

\* String.prototype.indexOf for one character; 0 when it does not occur
IndexOf(s, c) ==
    IF c \in Range(s) THEN CHOOSE i \in 1..Len(s) : s[i] = c /\ \A j \in 1..(i - 1) : s[j] # c
    ELSE 0

\* String.prototype.split(sep) for a one-character separator
RECURSIVE Split(_, _)
Split(s, sep) ==
    LET i == IndexOf(s, sep)
    IN  IF i = 0 THEN <<s>>
        ELSE <<SubSeq(s, 1, i - 1)>> \o Split(SubSeq(s, i + 1, Len(s)), sep)

\* Math.round(n / d) for n >= 0, d > 0
RoundDiv(n, d) == (2 * n + d) \div (2 * d)

\* [...new Set([...a, ...b])]: the first occurrences, in order
RECURSIVE Dedupe(_)
Dedupe(s) ==
    IF s = <<>> THEN <<>>
    ELSE LET init == Dedupe(SubSeq(s, 1, Len(s) - 1))
             last == s[Len(s)]
         IN  IF last \in Range(init) THEN init ELSE Append(init, last)

(***************************************************************************)
(* DataQualityService: string similarity                                   *)
(***************************************************************************)
\* One row of the matrix of levenshteinDistance: row i (for str2[i]) from
\* the row above it, filled left to right.
RECURSIVE LevRow(_, _, _, _, _)
LevRow(str1, c, above, i, acc) ==
    LET j == Len(acc)
    IN  IF j > Len(str1) THEN acc
        ELSE LET cell == IF c = str1[j]
                         THEN above[j]
                         ELSE Min(above[j] + 1, Min(acc[j] + 1, above[j + 1] + 1))
             IN  LevRow(str1, c, above, i, Append(acc, cell))

RECURSIVE LevRows(_, _, _, _)
LevRows(str1, str2, i, above) ==
    IF i > Len(str2) THEN above
    ELSE LevRows(str1, str2, i + 1, LevRow(str1, str2[i], above, i, <<i>>))

levenshteinDistance(str1, str2) ==
    LevRows(str1, str2, 1, [j \in 1..(Len(str1) + 1) |-> j - 1])[Len(str1) + 1]

\* calculateStringSimilarity returns (longer.length - distance) / longer.length;
\* the model keeps the fraction as <<numerator, denominator>>; two empty
\* strings give 1.0.
calculateStringSimilarity(str1, str2) ==
    LET longer == IF Len(str1) > Len(str2) THEN str1 ELSE str2
        shorter == IF Len(str1) > Len(str2) THEN str2 ELSE str1
    IN  IF Len(longer) = 0 THEN <<1, 1>>
        ELSE <<Len(longer) - levenshteinDistance(longer, shorter), Len(longer)>>

\* ratio > p / 10
RatioAbove(ratio, p) == 10 * ratio[1] > p * ratio[2]

(***************************************************************************)
(* EnhancedLead                                                            *)
(***************************************************************************)
StringFields ==
    {"firstName", "lastName", "email", "linkedinUrl", "companyName", "role",
     "phoneNumber", "website", "companySize", "seniority", "department",
     "aboutSummary", "companyFunding", "companyRevenue", "competitorAnalysis"}

\* the items of sources are provenance tags, the items of the other arrays
\* are strings
ArrayFields ==
    {"sources", "recentActivity", "buyingSignals", "painPointIndicators",
     "companyGrowthSignals", "companyTechStack"}

NumberFields ==
    {"emailDeliverabilityScore", "linkedinConnections", "linkedinActivityScore",
     "contentEngagement", "interestRating", "dataFreshnessScore",
     "sourceCredibility", "duplicateRisk", "lastUpdated"}

BooleanFields == {"emailVerified"}

\* optional booleans and objects: <<>> while undefined, <<v>> once set
OptionFields == {"jobChangeSignals", "socialProfiles"}

\* A lead with every optional field missing.  dataPoints.duplicateAnalysis
\* and dataPoints.qualityMetrics are <<>> while the key is absent and <<v>>
\* once it is set.
EmptyLead ==
    [firstName |-> <<>>, lastName |-> <<>>, email |-> <<>>,
     linkedinUrl |-> <<>>, companyName |-> <<>>, role |-> <<>>,
     phoneNumber |-> <<>>, website |-> <<>>, companySize |-> <<>>,
     seniority |-> <<>>, department |-> <<>>, aboutSummary |-> <<>>,
     companyFunding |-> <<>>, companyRevenue |-> <<>>,
     competitorAnalysis |-> <<>>,
     sources |-> <<>>, recentActivity |-> <<>>, buyingSignals |-> <<>>,
     painPointIndicators |-> <<>>, companyGrowthSignals |-> <<>>,
     companyTechStack |-> <<>>,
     emailDeliverabilityScore |-> Undefined, linkedinConnections |-> Undefined,
     linkedinActivityScore |-> Undefined, contentEngagement |-> Undefined,
     interestRating |-> Undefined, dataFreshnessScore |-> Undefined,
     sourceCredibility |-> Undefined, duplicateRisk |-> Undefined,
     lastUpdated |-> Undefined,
     emailVerified |-> FALSE, jobChangeSignals |-> <<>>,
     socialProfiles |-> <<>>,
     dataPoints |-> [duplicateAnalysis |-> <<>>, qualityMetrics |-> <<>>,
                     enrichmentSuggestions |-> <<>>,
                     finalQualityScore |-> <<>>, mergedFrom |-> <<>>,
                     location |-> <<>>, industry |-> <<>>]]

(***************************************************************************)
(* DataQualityService: deduplication and merge                             *)
(***************************************************************************)
\* isFieldComplete(lead[key])
isFieldComplete(lead, key) ==
    CASE key \in StringFields -> Trim(lead[key]) # <<>>
      [] key \in ArrayFields \cup OptionFields -> lead[key] # <<>>
      [] key \in NumberFields -> lead[key] # Undefined
      [] OTHER -> TRUE

\* `${lead.firstName}_${lead.lastName}_${lead.email || lead.linkedinUrl || 'unknown'}`
generateLeadId(lead) ==
    lead.firstName \o <<"_">> \o lead.lastName \o <<"_">>
        \o (IF lead.email # <<>> THEN lead.email
            ELSE IF lead.linkedinUrl # <<>> THEN lead.linkedinUrl
            ELSE <<"unknown">>)

FullName(lead) == Trim(ToLowerCase(lead.firstName \o <<" ">> \o lead.lastName))

EmailScore(l1, l2) ==
    IF l1.email # <<>> /\ l2.email # <<>>
       /\ ToLowerCase(l1.email) = ToLowerCase(l2.email)
    THEN 50 ELSE 0

NameScore(l1, l2) ==
    LET name1 == FullName(l1)
        name2 == FullName(l2)
    IN  IF name1 # <<>> /\ name2 # <<>>
        THEN LET nameSimilarity == calculateStringSimilarity(name1, name2)
             IN  IF RatioAbove(nameSimilarity, 8) THEN 30
                 ELSE IF RatioAbove(nameSimilarity, 6) THEN 15
                 ELSE 0
        ELSE 0

LinkedinScore(l1, l2) ==
    IF l1.linkedinUrl # <<>> /\ l2.linkedinUrl # <<>>
       /\ l1.linkedinUrl = l2.linkedinUrl
    THEN 40 ELSE 0

CompanyRoleScore(l1, l2) ==
    IF l1.companyName # <<>> /\ l2.companyName # <<>>
       /\ ToLowerCase(l1.companyName) = ToLowerCase(l2.companyName)
    THEN 10 + (IF l1.role # <<>> /\ l2.role # <<>>
                  /\ ToLowerCase(l1.role) = ToLowerCase(l2.role)
               THEN 15 ELSE 0)
    ELSE 0

PhoneScore(l1, l2) ==
    IF l1.phoneNumber # <<>> /\ l2.phoneNumber # <<>>
       /\ CleanPhone(l1.phoneNumber) = CleanPhone(l2.phoneNumber)
    THEN 25 ELSE 0

\* The sum of the field scores, returned without the cap at 100.
UncappedSimilarity(l1, l2) ==
    EmailScore(l1, l2) + NameScore(l1, l2) + LinkedinScore(l1, l2)
        + CompanyRoleScore(l1, l2) + PhoneScore(l1, l2)

\* calculateSimilarity(lead1, lead2).score
calculateSimilarity(l1, l2) ==
    LET score == EmailScore(l1, l2) + NameScore(l1, l2) + LinkedinScore(l1, l2)
                     + CompanyRoleScore(l1, l2) + PhoneScore(l1, l2)
    IN  Min(100, score)

\* A duplicate analysis that calls for a merge as soon as a record is
\* similar (score above 70).
AnalyzeMergingSimilar(lead, existingLeads) ==
    LET scores == [i \in 1..Len(existingLeads) |->
                      calculateSimilarity(lead, existingLeads[i])]
        hits == {i \in 1..Len(existingLeads) : scores[i] > 70}
        RECURSIVE Ids(_)
        Ids(i) == IF i = 0 THEN <<>>
                  ELSE IF i \in hits
                       THEN Append(Ids(i - 1), generateLeadId(existingLeads[i]))
                       ELSE Ids(i - 1)
    IN  [isDuplicate |-> hits # {},
         duplicateScore |-> IF hits = {} THEN 0
                            ELSE CHOOSE v \in {scores[i] : i \in hits} :
                                    \A i \in hits : v >= scores[i],
         similarLeads |-> Ids(Len(existingLeads))]

\* analyzeDuplicates(lead, existingLeads)
analyzeDuplicates(lead, existingLeads) ==
    LET scores == [i \in 1..Len(existingLeads) |->
                      calculateSimilarity(lead, existingLeads[i])]
        RECURSIVE Highest(_)
        Highest(i) == IF i = 0 THEN 0 ELSE Max(Highest(i - 1), scores[i])
        highestScore == Highest(Len(existingLeads))
        RECURSIVE Similar(_)
        Similar(i) ==
            IF i = 0 THEN <<>>
            ELSE IF scores[i] > 70
                 THEN Append(Similar(i - 1), generateLeadId(existingLeads[i]))
                 ELSE Similar(i - 1)
    IN  [isDuplicate |-> highestScore > 85,
         duplicateScore |-> highestScore,
         similarLeads |-> Similar(Len(existingLeads))]

\* A merge that fills the missing fields but keeps the existing record's
\* sources instead of the union.
MergeWithoutSourceUnion(existing, duplicate) ==
    [key \in DOMAIN existing |->
        IF ~isFieldComplete(existing, key) /\ isFieldComplete(duplicate, key)
        THEN duplicate[key] ELSE existing[key]]

\* A merge that unions the sources but takes no field from the duplicate.
MergeWithoutFill(existing, duplicate) ==
    [existing EXCEPT !.sources = Dedupe(existing.sources \o duplicate.sources)]

\* mergeLeads(existing, duplicate)
mergeLeads(existing, duplicate) ==
    LET filled == [key \in DOMAIN existing |->
                      IF ~isFieldComplete(existing, key)
                         /\ isFieldComplete(duplicate, key)
                      THEN duplicate[key] ELSE existing[key]]
        dp == [key \in DOMAIN existing.dataPoints |->
                  IF key = "mergedFrom"
                  THEN Append(existing.dataPoints.mergedFrom, generateLeadId(duplicate))
                  ELSE IF duplicate.dataPoints[key] # <<>>
                       THEN duplicate.dataPoints[key]
                       ELSE existing.dataPoints[key]]
    IN  [filled EXCEPT
            !.sources = Dedupe(existing.sources \o duplicate.sources),
            !.dataPoints = dp,
            !.dataFreshnessScore = Max(OrElse(existing.dataFreshnessScore, 0),
                                       OrElse(duplicate.dataFreshnessScore, 0)),
            !.sourceCredibility = Max(OrElse(existing.sourceCredibility, 0),
                                      OrElse(duplicate.sourceCredibility, 0))]

\* uniqueLeads.findIndex(existing => similarLeads.includes(generateLeadId(existing)))
FindIndex(unique, similarLeads) ==
    LET hits == {i \in 1..Len(unique) : generateLeadId(unique[i]) \in Range(similarLeads)}
    IN  IF hits = {} THEN 0 ELSE CHOOSE i \in hits : \A j \in hits : i <= j

\* deduplicateLeads: the merge into the record found, if one is found
MergeAt(unique, existingLeadIndex, lead) ==
    IF existingLeadIndex >= 1
    THEN [unique EXCEPT ![existingLeadIndex] =
             mergeLeads(unique[existingLeadIndex], lead)]
    ELSE unique

\* One iteration of the loop of deduplicateLeads, given the duplicate
\* analysis of the lead
DedupWith(unique, lead, duplicateAnalysis) ==
    IF duplicateAnalysis.isDuplicate
    THEN MergeAt(unique, FindIndex(unique, duplicateAnalysis.similarLeads), lead)
    ELSE Append(unique,
                [lead EXCEPT
                    !.duplicateRisk = duplicateAnalysis.duplicateScore,
                    !.dataPoints.duplicateAnalysis = <<duplicateAnalysis>>])

\* One iteration of the loop of deduplicateLeads
DedupStep(unique, lead) == DedupWith(unique, lead, analyzeDuplicates(lead, unique))

RECURSIVE DedupFrom(_, _, _)
DedupFrom(unique, leads, i) ==
    IF i > Len(leads) THEN unique
    ELSE DedupFrom(DedupStep(unique, leads[i]), leads, i + 1)

\* deduplicateLeads(leads)
deduplicateLeads(leads) == DedupFrom(<<>>, leads, 1)

(***************************************************************************)
(* DataQualityService: quality metrics                                     *)
(* A URL is a scheme-and-host token followed by characters: the website    *)
(* of y.c is <<"https://", "y", ".", "c">>, a profile URL is               *)
(* <<"https://linkedin.com/in/", "a", "l">>.  lastUpdated is the age of    *)
(* the record in days.  The issue and recommendation texts of the metrics  *)
(* are left out.                                                           *)
(***************************************************************************)
Letters == Range(UpperLetters) \cup Range(LowerLetters)

\* \w
WordChars == Letters \cup Digits \cup {"_"}

\* /^[^\s@]+@[^\s@]+\.[^\s@]+$/.test(email)
EmailFormatOk(email) ==
    LET at == IndexOf(email, "@")
    IN  /\ " " \notin Range(email)
        /\ Cardinality({i \in 1..Len(email) : email[i] = "@"}) = 1
        /\ at > 1
        /\ \E j \in (at + 2)..(Len(email) - 1) : email[j] = "."

LinkedinPrefixes == {"https://linkedin.com/in/", "https://www.linkedin.com/in/"}

\* /^https:\/\/(www\.)?linkedin\.com\/in\/[\w\-_]+\/?$/.test(url)
isValidLinkedInUrl(url) ==
    /\ Len(url) >= 2
    /\ url[1] \in LinkedinPrefixes
    /\ LET rest == Tail(url)
           slug == IF rest[Len(rest)] = "/"
                   THEN SubSeq(rest, 1, Len(rest) - 1) ELSE rest
       IN  /\ slug # <<>>
           /\ \A i \in 1..Len(slug) : slug[i] \in WordChars \cup {"-"}

UrlSchemes == {"https://", "http://"}

\* new URL(url) does not throw
IsUrl(url) == Len(url) >= 2 /\ url[1] \in UrlSchemes

PhoneChars == Digits \cup {" ", "-", "(", ")", "."}

\* /^[\+]?[1-9]?[\d\s\-\(\)\.]{7,15}$/.test(phoneNumber)
PhoneFormatOk(phone) ==
    LET rest == IF phone # <<>> /\ phone[1] = "+" THEN Tail(phone) ELSE phone
        Body(b) == Len(b) \in 7..15 /\ \A i \in 1..Len(b) : b[i] \in PhoneChars
    IN  \/ Body(rest)
        \/ rest # <<>> /\ rest[1] \in Digits \ {"0"} /\ Body(Tail(rest))

fakeCompanyPatterns ==
    {<<"t", "e", "s", "t">>,
     <<"e", "x", "a", "m", "p", "l", "e">>,
     <<"s", "a", "m", "p", "l", "e">>,
     <<"f", "a", "k", "e">>}

\* assessDataAccuracy(lead)
assessDataAccuracy(lead) ==
    LET accuracy ==
            80
            - (IF lead.email # <<>> /\ ~EmailFormatOk(lead.email) THEN 20 ELSE 0)
            - (IF lead.linkedinUrl # <<>> /\ ~isValidLinkedInUrl(lead.linkedinUrl)
               THEN 10 ELSE 0)
            - (IF lead.website # <<>> /\ ~IsUrl(lead.website) THEN 10 ELSE 0)
            - (IF lead.firstName # <<>> /\ Len(lead.firstName) < 2 THEN 15 ELSE 0)
            - (IF lead.lastName # <<>> /\ Len(lead.lastName) < 2 THEN 15 ELSE 0)
            - (IF lead.companyName # <<>>
                  /\ \E pattern \in fakeCompanyPatterns :
                        Includes(ToLowerCase(lead.companyName), pattern)
               THEN 30 ELSE 0)
            - (IF lead.phoneNumber # <<>> /\ ~PhoneFormatOk(lead.phoneNumber)
               THEN 10 ELSE 0)
    IN  Max(0, Min(100, accuracy))

\* calculateFreshness(lead); a record without lastUpdated counts as updated now
calculateFreshness(lead) ==
    LET daysSinceUpdate == IF lead.lastUpdated = Undefined THEN 0 ELSE lead.lastUpdated
    IN  IF daysSinceUpdate <= 1 THEN 100
        ELSE IF daysSinceUpdate <= 7 THEN 90
        ELSE IF daysSinceUpdate <= 30 THEN 75
        ELSE IF daysSinceUpdate <= 90 THEN 60
        ELSE IF daysSinceUpdate <= 180 THEN 40
        ELSE 20

\* new URL(url).hostname.replace('www.', ''), '' when the URL does not parse
extractDomain(url) ==
    IF ~IsUrl(url) THEN <<>>
    ELSE LET rest == Tail(url)
             slash == IndexOf(rest, "/")
             host == ToLowerCase(IF slash = 0 THEN rest ELSE SubSeq(rest, 1, slash - 1))
             www == IndexOf(host, "www.")
         IN  IF www = 0 THEN host
             ELSE SubSeq(host, 1, www - 1) \o SubSeq(host, www + 1, Len(host))

\* parts[parts.length - 2] of domain.split('.'): <<part>>, or <<>> when the
\* domain has a single part (undefined)
DomainRoot(domain) ==
    LET parts == Split(domain, ".")
    IN  IF Len(parts) >= 2 THEN <<parts[Len(parts) - 1]>> ELSE <<>>

\* areRelatedDomains(domain1, domain2)
areRelatedDomains(domain1, domain2) == DomainRoot(domain1) = DomainRoot(domain2)

\* email.split('@')[1]; <<>> when the email has no '@' (undefined)
EmailDomain(email) ==
    LET parts == Split(email, "@")
    IN  IF Len(parts) >= 2 THEN parts[2] ELSE <<>>

\* url.match(/linkedin\.com\/in\/([\w\-_]+)/): the slug with - and _ turned
\* into spaces, lower-cased; '' without a match
extractNameFromLinkedInUrl(url) ==
    IF url = <<>> \/ url[1] \notin LinkedinPrefixes THEN <<>>
    ELSE LET rest == Tail(url)
             stops == {i \in 1..Len(rest) : rest[i] \notin WordChars \cup {"-"}}
             slug == IF stops = {} THEN rest
                     ELSE SubSeq(rest, 1, (CHOOSE i \in stops : \A j \in stops : i <= j) - 1)
         IN  ToLowerCase([i \in 1..Len(slug) |->
                             IF slug[i] \in {"-", "_"} THEN " " ELSE slug[i]])

\* namesAreSimilar(name1, name2)
namesAreSimilar(name1, name2) == RatioAbove(calculateStringSimilarity(name1, name2), 6)

seniorityKeywords(seniority) ==
    CASE seniority = <<"junior">> ->
            {<<"j", "u", "n", "i", "o", "r">>,
             <<"a", "s", "s", "o", "c", "i", "a", "t", "e">>,
             <<"c", "o", "o", "r", "d", "i", "n", "a", "t", "o", "r">>,
             <<"a", "s", "s", "i", "s", "t", "a", "n", "t">>}
      [] seniority = <<"mid">> ->
            {<<"m", "a", "n", "a", "g", "e", "r">>,
             <<"s", "p", "e", "c", "i", "a", "l", "i", "s", "t">>,
             <<"l", "e", "a", "d">>}
      [] seniority = <<"senior">> ->
            {<<"s", "e", "n", "i", "o", "r">>,
             <<"d", "i", "r", "e", "c", "t", "o", "r">>,
             <<"h", "e", "a", "d">>}
      [] seniority = <<"executive">> ->
            {<<"v", "p">>,
             <<"v", "i", "c", "e", " ", "p", "r", "e", "s", "i", "d", "e", "n", "t">>,
             <<"e", "x", "e", "c", "u", "t", "i", "v", "e">>}
      [] seniority = <<"c-level">> ->
            {<<"c", "e", "o">>,
             <<"c", "t", "o">>,
             <<"c", "m", "o">>,
             <<"c", "f", "o">>,
             <<"c", "h", "i", "e", "f">>}
      [] OTHER -> {}

\* roleMatchesSeniority(role, seniority)
roleMatchesSeniority(role, seniority) ==
    \E keyword \in seniorityKeywords(seniority) : Includes(ToLowerCase(role), keyword)

\* calculateConsistency reads emailDomain.split('.') of an email without '@'
\* when the lead also has a website whose host differs: a TypeError
ConsistencyThrows(lead) ==
    /\ lead.email # <<>>
    /\ lead.website # <<>>
    /\ "@" \notin Range(lead.email)

\* calculateConsistency(lead)
calculateConsistency(lead) ==
    LET emailDomain == EmailDomain(lead.email)
        websiteDomain == extractDomain(lead.website)
        nameInUrl == extractNameFromLinkedInUrl(lead.linkedinUrl)
        fullName == ToLowerCase(lead.firstName \o <<" ">> \o lead.lastName)
        consistency ==
            100
            - (IF lead.email # <<>> /\ lead.website # <<>>
                  /\ emailDomain # websiteDomain
                  /\ ~areRelatedDomains(emailDomain, websiteDomain)
               THEN 15 ELSE 0)
            - (IF lead.linkedinUrl # <<>>
                  /\ (lead.firstName # <<>> \/ lead.lastName # <<>>)
                  /\ nameInUrl # <<>> /\ ~namesAreSimilar(nameInUrl, fullName)
               THEN 20 ELSE 0)
            - (IF lead.role # <<>> /\ lead.seniority # <<>>
                  /\ ~roleMatchesSeniority(lead.role, lead.seniority)
               THEN 10 ELSE 0)
    IN  Max(0, consistency)

sourceReliability(source) ==
    CASE source = "linkedin" -> 95
      [] source = "apollo" -> 90
      [] source = "zoominfo" -> 95
      [] source = "hunter" -> 85
      [] source = "clearbit" -> 90
      [] source = "manual" -> 70
      [] source = "web_scraping" -> 60
      [] source = "unknown" -> 30
      [] OTHER -> 50

RECURSIVE SumReliability(_)
SumReliability(sources) ==
    IF sources = <<>> THEN 0
    ELSE sourceReliability(Head(sources)) + SumReliability(Tail(sources))

\* calculateReliability(sources)
calculateReliability(sources) ==
    IF Len(sources) = 0 THEN 50
    ELSE LET multiSourceBonus == Min(Len(sources) * 5, 15)
         IN  Min(100, RoundDiv(SumReliability(sources) + Len(sources) * multiSourceBonus,
                               Len(sources)))

requiredFields == {"firstName", "lastName", "email", "role", "companyName"}

optionalFields ==
    {"linkedinUrl", "website", "phoneNumber", "companySize", "aboutSummary",
     "department", "seniority"}

\* calculateQualityMetrics(lead)
calculateQualityMetrics(lead) ==
    LET completedRequired == Cardinality({f \in requiredFields : isFieldComplete(lead, f)})
        completedOptional == Cardinality({f \in optionalFields : isFieldComplete(lead, f)})
        completeness == RoundDiv(98 * completedRequired + 30 * completedOptional, 7)
        accuracy == assessDataAccuracy(lead)
        freshness == OrElse(lead.dataFreshnessScore, calculateFreshness(lead))
        consistency == calculateConsistency(lead)
        reliability == calculateReliability(lead.sources)
        overallQuality == RoundDiv(30 * completeness + 25 * accuracy + 20 * freshness
                                       + 15 * consistency + 10 * reliability, 100)
    IN  [completeness |-> completeness, accuracy |-> accuracy,
         freshness |-> freshness, consistency |-> consistency,
         reliability |-> reliability, overallQuality |-> overallQuality]

\* assessDataQuality: the lead the assessment returns for its metrics
WithQualityMetrics(lead, metrics) ==
    [lead EXCEPT
        !.dataFreshnessScore = metrics.freshness,
        !.sourceCredibility = metrics.reliability,
        !.duplicateRisk = 0,
        !.dataPoints.qualityMetrics = <<metrics>>]

\* assessDataQuality(lead)
assessDataQuality(lead) == WithQualityMetrics(lead, calculateQualityMetrics(lead))

allFields ==
    {"firstName", "lastName", "email", "phoneNumber", "linkedinUrl", "role",
     "department", "seniority", "companyName", "website", "companySize",
     "companyRevenue", "companyFunding", "aboutSummary"}

\* analyzeEnrichmentOpportunities(lead).estimatedCompleteness
analyzeEnrichmentOpportunities(lead) ==
    LET completedFields == Cardinality({f \in allFields : isFieldComplete(lead, f)})
    IN  RoundDiv(completedFields * 100, Cardinality(allFields))

\* suggestEnrichments, for one lead
suggestEnrichment(lead) ==
    [lead EXCEPT !.dataPoints.enrichmentSuggestions =
                     <<analyzeEnrichmentOpportunities(lead)>>]

\* suggestEnrichments(leads)
suggestEnrichments(leads) ==
    [i \in 1..Len(leads) |-> suggestEnrichment(leads[i])]

\* calculateFinalQualityScores, for one lead
calculateFinalQualityScore(lead) ==
    IF lead.dataPoints.qualityMetrics # <<>>
    THEN LET qualityMetrics == lead.dataPoints.qualityMetrics[1]
             estimated == IF lead.dataPoints.enrichmentSuggestions = <<>> THEN 70
                          ELSE OrElse(lead.dataPoints.enrichmentSuggestions[1], 70)
             finalScore == RoundDiv(7 * qualityMetrics.overallQuality
                                        + 2 * (100 - OrElse(lead.duplicateRisk, 0))
                                        + estimated, 10)
         IN  [lead EXCEPT !.dataPoints.finalQualityScore = <<finalScore>>]
    ELSE lead

\* calculateFinalQualityScores(leads)
calculateFinalQualityScores(leads) ==
    [i \in 1..Len(leads) |-> calculateFinalQualityScore(leads[i])]

\* processLeads: Promise.all(leads.map(lead => this.assessDataQuality(lead)))
qualityAssessedLeads(leads) ==
    [i \in 1..Len(leads) |-> assessDataQuality(leads[i])]

\* processLeads(leads): assessment, deduplication, enrichment suggestions,
\* final quality scores
processLeads(leads) ==
    calculateFinalQualityScores(
        suggestEnrichments(deduplicateLeads(qualityAssessedLeads(leads))))

(***************************************************************************)
(* EmailVerificationService                                                *)
(* The outside world of a verification is env: what the MX lookup of the   *)
(* domain does ("mx": records found, "nomx": none, "error": the lookup     *)
(* throws) and what the external providers say ("unknown": none is         *)
(* configured or definitive, "valid", "invalid").  An optional boolean is  *)
(* <<>> or <<b>>, a missing status is "".                                  *)
(***************************************************************************)
disposableProviders ==
    {<<"1", "0", "m", "i", "n", "u", "t", "e", "m", "a", "i", "l", ".", "c", "o", "m">>,
     <<"t", "e", "m", "p", "m", "a", "i", "l", ".", "o", "r", "g">>,
     <<"g", "u", "e", "r", "r", "i", "l", "l", "a", "m", "a", "i", "l", ".", "c", "o", "m">>,
     <<"m", "a", "i", "l", "i", "n", "a", "t", "o", "r", ".", "c", "o", "m">>,
     <<"t", "h", "r", "o", "w", "a", "w", "a", "y", ".", "e", "m", "a", "i", "l">>,
     <<"t", "e", "m", "p", "-", "m", "a", "i", "l", ".", "o", "r", "g">>,
     <<"m", "a", "i", "l", "d", "r", "o", "p", ".", "c", "c">>,
     <<"y", "o", "p", "m", "a", "i", "l", ".", "c", "o", "m">>}

roleBasedPrefixes ==
    {<<"a", "d", "m", "i", "n">>,
     <<"s", "u", "p", "p", "o", "r", "t">>,
     <<"i", "n", "f", "o">>,
     <<"c", "o", "n", "t", "a", "c", "t">>,
     <<"s", "a", "l", "e", "s">>,
     <<"m", "a", "r", "k", "e", "t", "i", "n", "g">>,
     <<"h", "r">>,
     <<"h", "e", "l", "p">>,
     <<"w", "e", "b", "m", "a", "s", "t", "e", "r">>,
     <<"n", "o", "r", "e", "p", "l", "y">>,
     <<"n", "o", "-", "r", "e", "p", "l", "y">>,
     <<"p", "o", "s", "t", "m", "a", "s", "t", "e", "r">>}

\* the domains of the emailProviders that are not business friendly
freeProviderDomains ==
    {<<"g", "m", "a", "i", "l", ".", "c", "o", "m">>,
     <<"g", "o", "o", "g", "l", "e", "m", "a", "i", "l", ".", "c", "o", "m">>,
     <<"o", "u", "t", "l", "o", "o", "k", ".", "c", "o", "m">>,
     <<"h", "o", "t", "m", "a", "i", "l", ".", "c", "o", "m">>,
     <<"l", "i", "v", "e", ".", "c", "o", "m">>,
     <<"y", "a", "h", "o", "o", ".", "c", "o", "m">>,
     <<"y", "m", "a", "i", "l", ".", "c", "o", "m">>,
     <<"i", "c", "l", "o", "u", "d", ".", "c", "o", "m">>,
     <<"m", "e", ".", "c", "o", "m">>,
     <<"m", "a", "c", ".", "c", "o", "m">>}

\* the domains of the business friendly emailProviders
businessProviderDomains ==
    {<<"p", "r", "o", "t", "o", "n", "m", "a", "i", "l", ".", "c", "o", "m">>,
     <<"p", "r", "o", "t", "o", "n", "m", "a", "i", "l", ".", "c", "h">>,
     <<"f", "a", "s", "t", "m", "a", "i", "l", ".", "c", "o", "m">>,
     <<"f", "a", "s", "t", "m", "a", "i", "l", ".", "f", "m">>}

DnsOutcomes == {"mx", "nomx", "error"}

ExternalOutcomes == {"unknown", "valid", "invalid"}

\* basicEmailValidation(email)
basicEmailValidation(email) ==
    IF ~EmailFormatOk(email)
    THEN [isValid |-> <<FALSE>>, deliverabilityScore |-> 0,
          verificationStatus |-> "invalid"]
    ELSE LET parts == Split(email, "@")
             localPart == ToLowerCase(parts[1])
             lowerDomain == ToLowerCase(parts[2])
             disposable == lowerDomain \in disposableProviders
             role == \E prefix \in roleBasedPrefixes : StartsWith(localPart, prefix)
             free == lowerDomain \in freeProviderDomains
             businessFriendly == lowerDomain \in businessProviderDomains
             deliverabilityScore ==
                 80 - (IF disposable THEN 50 ELSE 0) - (IF role THEN 20 ELSE 0)
                    - (IF free THEN 15 ELSE 0) + (IF businessFriendly THEN 10 ELSE 0)
         IN  [isValid |-> <<>>,
              deliverabilityScore |-> Max(0, Min(100, deliverabilityScore)),
              verificationStatus |-> ""]

\* dnsVerification(email); resolveMx of a missing domain throws as well
dnsVerification(email, env) ==
    IF "@" \notin Range(email) \/ env.dns = "error"
    THEN [isValid |-> <<FALSE>>, deliverabilityScore |-> 20,
          verificationStatus |-> "unknown"]
    ELSE IF env.dns = "nomx"
    THEN [isValid |-> <<FALSE>>, deliverabilityScore |-> 0,
          verificationStatus |-> "invalid"]
    ELSE [isValid |-> <<TRUE>>, deliverabilityScore |-> 85,
          verificationStatus |-> "valid"]

\* externalVerification(email): the first provider with a definitive status
externalVerification(email, env) ==
    CASE env.external = "valid" ->
            [isValid |-> <<TRUE>>, deliverabilityScore |-> 95,
             verificationStatus |-> "valid"]
      [] env.external = "invalid" ->
            [isValid |-> <<FALSE>>, deliverabilityScore |-> 10,
             verificationStatus |-> "invalid"]
      [] OTHER ->
            [isValid |-> <<>>, deliverabilityScore |-> Undefined,
             verificationStatus |-> "unknown"]

\* { verificationStatus: 'unknown', reason: ... }: no key, a failed request,
\* or no provider with a definitive status
UnknownResult ==
    [isValid |-> <<>>, deliverabilityScore |-> Undefined,
     verificationStatus |-> "unknown"]

\* What a provider's API does for an email: no API key is configured, the
\* request fails (fetch throws or the response is not ok), or it answers
\* with a status (and, for Hunter, a score).
ProviderAnswer(kind, status, score) == [kind |-> kind, status |-> status, score |-> score]

HunterAnswers ==
    {ProviderAnswer("nokey", "", 0), ProviderAnswer("error", "", 0),
     ProviderAnswer("ok", "deliverable", 92),
     ProviderAnswer("ok", "undeliverable", 0),
     ProviderAnswer("ok", "risky", 60),
     ProviderAnswer("ok", "unknown", 50)}

ZeroBounceAnswers ==
    {ProviderAnswer("nokey", "", 0), ProviderAnswer("error", "", 0)}
    \cup {ProviderAnswer("ok", status, 0) :
            status \in {"valid", "invalid", "catch-all", "spamtrap", "unknown"}}

NeverBounceAnswers ==
    {ProviderAnswer("nokey", "", 0), ProviderAnswer("error", "", 0)}
    \cup {ProviderAnswer("ok", status, 0) :
            status \in {"valid", "invalid", "disposable", "catchall", "unknown"}}

\* mapHunterStatus(status)
mapHunterStatus(status) ==
    CASE status = "deliverable" -> "valid"
      [] status = "undeliverable" -> "invalid"
      [] status = "risky" -> "risky"
      [] OTHER -> "unknown"

\* mapZeroBounceStatus(status)
mapZeroBounceStatus(status) ==
    CASE status = "valid" -> "valid"
      [] status = "invalid" -> "invalid"
      [] status \in {"catch-all", "spamtrap", "abuse"} -> "risky"
      [] OTHER -> "unknown"

\* mapZeroBounceScore(status)
mapZeroBounceScore(status) ==
    CASE status = "valid" -> 95
      [] status = "catch-all" -> 70
      [] status = "unknown" -> 50
      [] status \in {"spamtrap", "abuse"} -> 20
      [] status = "invalid" -> 10
      [] OTHER -> 30

\* mapNeverBounceStatus(status)
mapNeverBounceStatus(status) ==
    CASE status = "valid" -> "valid"
      [] status = "invalid" -> "invalid"
      [] status \in {"disposable", "catchall"} -> "risky"
      [] OTHER -> "unknown"

\* mapNeverBounceScore(status)
mapNeverBounceScore(status) ==
    CASE status = "valid" -> 95
      [] status = "catchall" -> 75
      [] status = "unknown" -> 50
      [] status = "disposable" -> 30
      [] status = "invalid" -> 10
      [] OTHER -> 40

\* verifyWithHunter(email), given what the API does
verifyWithHunter(answer) ==
    IF answer.kind # "ok" THEN UnknownResult
    ELSE [isValid |-> <<answer.status = "deliverable">>,
          deliverabilityScore |-> IF answer.score = 0 THEN 50 ELSE answer.score,
          verificationStatus |-> mapHunterStatus(answer.status)]

\* verifyWithZeroBounce(email), given what the API does
verifyWithZeroBounce(answer) ==
    IF answer.kind # "ok" THEN UnknownResult
    ELSE [isValid |-> <<answer.status = "valid">>,
          deliverabilityScore |-> mapZeroBounceScore(answer.status),
          verificationStatus |-> mapZeroBounceStatus(answer.status)]

\* verifyWithNeverBounce(email), given what the API does
verifyWithNeverBounce(answer) ==
    IF answer.kind # "ok" THEN UnknownResult
    ELSE [isValid |-> <<answer.status = "valid">>,
          deliverabilityScore |-> mapNeverBounceScore(answer.status),
          verificationStatus |-> mapNeverBounceStatus(answer.status)]

\* The providers in another order.
ServicesZeroBounceFirst == <<"zerobounce", "hunter", "neverbounce">>

\* externalVerification: const services = [Hunter, ZeroBounce, NeverBounce]
services == <<"hunter", "zerobounce", "neverbounce">>

\* service(), given what the APIs do
ServiceResult(name, answers) ==
    CASE name = "hunter" -> verifyWithHunter(answers.hunter)
      [] name = "zerobounce" -> verifyWithZeroBounce(answers.zerobounce)
      [] OTHER -> verifyWithNeverBounce(answers.neverbounce)

\* generateMockPhoneNumber(): `+1-${areaCode}-${exchange}-${number}`
MockPhoneNumber ==
    <<"+", "1", "-", "2", "0", "0", "-", "2", "0", "0", "-", "1", "0", "0", "0">>

\* socialVerification(lead): <<result>>, or <<>> when it throws (an email
\* without '@' next to a website with another host)
socialVerification(lead) ==
    LET emailDomain == EmailDomain(lead.email)
        websiteDomain == extractDomain(lead.website)
        correlate == lead.email # <<>> /\ lead.website # <<>>
        hasPhone == lead.firstName # <<>> /\ lead.lastName # <<>>
                        /\ lead.companyName # <<>>
        confidence ==
            50
            + (IF lead.linkedinUrl # <<>> /\ isValidLinkedInUrl(lead.linkedinUrl)
               THEN 15 ELSE 0)
            + (IF correlate /\ emailDomain = websiteDomain THEN 20
               ELSE IF correlate /\ areRelatedDomains(emailDomain, websiteDomain)
                    THEN 10 ELSE 0)
            + (IF hasPhone THEN 5 ELSE 0)
    IN  IF correlate /\ "@" \notin Range(lead.email)
        THEN <<>>
        ELSE <<[deliverabilityScore |-> Min(100, confidence),
                phoneNumber |-> IF hasPhone THEN MockPhoneNumber ELSE <<>>]>>

\* combineVerificationResults: weightedScore as <<numerator, denominator>>,
\* in tenths of the weights; 30 when no layer has a score above 0
WeightedScore(basic, dns, external, social) ==
    LET socialScore == IF social = <<>> THEN 0 ELSE social[1].deliverabilityScore
        basicPart == OrElse(basic.deliverabilityScore, 0)
        dnsPart == OrElse(dns.deliverabilityScore, 0)
        externalPart == OrElse(external.deliverabilityScore, 0)
        socialPart == OrElse(socialScore, 0)
        totalWeight == (IF basicPart > 0 THEN 3 ELSE 0) + (IF dnsPart > 0 THEN 3 ELSE 0)
                         + (IF externalPart > 0 THEN 3 ELSE 0)
                         + (IF socialPart > 0 THEN 1 ELSE 0)
    IN  IF totalWeight > 0
        THEN <<3 * basicPart + 3 * dnsPart + 3 * externalPart + socialPart, totalWeight>>
        ELSE <<30, 1>>

\* combineVerificationResults(email, basic, dns, external, social)
combineVerificationResults(email, basic, dns, external, social) ==
    LET socialScore == IF social = <<>> THEN 0 ELSE social[1].deliverabilityScore
        layers == <<[score |-> OrElse(basic.deliverabilityScore, 0), weight |-> 3],
                    [score |-> OrElse(dns.deliverabilityScore, 0), weight |-> 3],
                    [score |-> OrElse(external.deliverabilityScore, 0), weight |-> 3],
                    [score |-> OrElse(socialScore, 0), weight |-> 1]>>
        used == {i \in 1..4 : layers[i].score > 0}
        RECURSIVE Sum(_, _)
        Sum(i, weighted) ==
            IF i = 0 THEN 0
            ELSE Sum(i - 1, weighted)
                 + (IF i \in used
                    THEN (IF weighted THEN layers[i].score * layers[i].weight
                          ELSE layers[i].weight)
                    ELSE 0)
        totalWeight == Sum(4, FALSE)
        \* weightedScore is scoreSum / totalWeight, or 30 when no layer counts
        scoreSum == IF totalWeight > 0 THEN Sum(4, TRUE) ELSE 30
        weightSum == IF totalWeight > 0 THEN totalWeight ELSE 1
        isValid == IF external.isValid # <<>> THEN external.isValid[1]
                   ELSE IF dns.isValid # <<>> THEN dns.isValid[1]
                   ELSE OrElse(basic.deliverabilityScore, 0) > 60
        verificationStatus ==
            IF external.verificationStatus \notin {"", "unknown"}
            THEN external.verificationStatus
            ELSE IF isValid /\ scoreSum > 70 * weightSum THEN "valid"
            ELSE IF ~isValid \/ scoreSum < 30 * weightSum THEN "invalid"
            ELSE "risky"
    IN  [email |-> email, isValid |-> isValid,
         deliverabilityScore |-> RoundDiv(scoreSum, weightSum),
         verificationStatus |-> verificationStatus,
         phoneNumber |-> IF social = <<>> THEN <<>> ELSE social[1].phoneNumber]

\* verifyContact(lead) for a lead that has an email
VerifyWithEmail(lead, env) ==
    combineVerificationResults(lead.email,
                               basicEmailValidation(lead.email),
                               dnsVerification(lead.email, env),
                               externalVerification(lead.email, env),
                               socialVerification(lead))

CompanySuffixes ==
    {<<"i", "n", "c">>,
     <<"c", "o", "r", "p">>,
     <<"l", "l", "c">>,
     <<"l", "t", "d">>,
     <<"c", "o", "m", "p", "a", "n", "y">>,
     <<"c", "o">>}

\* companyName.toLowerCase().replace(/[^a-z0-9\s]/g, '').replace(/\s+/g, '')
\*     .replace(/(inc|corp|llc|ltd|company|co)$/, '')
CleanCompanyName(companyName) ==
    LET IsKept(c) == c \in Range(LowerLetters) \cup Digits
        cleaned == SelectSeq(ToLowerCase(companyName), IsKept)
        ends == {suffix \in CompanySuffixes : EndsWith(cleaned, suffix)}
    IN  IF ends = {} THEN cleaned
        ELSE LET longest == CHOOSE suffix \in ends :
                                \A other \in ends : Len(other) <= Len(suffix)
             IN  SubSeq(cleaned, 1, Len(cleaned) - Len(longest))

\* guessDomainFromCompany(companyName, website)
guessDomainFromCompany(companyName, website) ==
    IF website # <<>> THEN extractDomain(website)
    ELSE CleanCompanyName(companyName) \o <<".", "c", "o", "m">>

\* the seven address patterns of generatePotentialEmails, in order
EmailPatterns(firstName, lastName, domain) ==
    LET at == <<"@">> \o domain
    IN  <<firstName \o <<".">> \o lastName \o at,
          firstName \o at,
          <<firstName[1]>> \o lastName \o at,
          firstName \o <<".", lastName[1]>> \o at,
          firstName \o lastName \o at,
          lastName \o <<".">> \o firstName \o at,
          firstName \o <<"_">> \o lastName \o at>>

\* generatePotentialEmails(lead): the verdicts of the patterns that are valid
generatePotentialEmails(lead, env) ==
    IF lead.firstName = <<>> \/ lead.lastName = <<>> \/ lead.companyName = <<>>
    THEN <<>>
    ELSE LET domain == guessDomainFromCompany(lead.companyName, lead.website)
         IN  IF domain = <<>> THEN <<>>
             ELSE LET patterns == EmailPatterns(ToLowerCase(lead.firstName),
                                                ToLowerCase(lead.lastName), domain)
                      results == [i \in 1..Len(patterns) |->
                                     VerifyWithEmail([EmptyLead EXCEPT !.email = patterns[i]],
                                                     env)]
                      IsValid(result) == result.isValid
                  IN  SelectSeq(results, IsValid)

\* findBestEmail(candidates): the first of the highest deliverabilityScore
\* (the sort is stable); <<>> for null
findBestEmail(candidates) ==
    IF candidates = <<>> THEN <<>>
    ELSE LET best == CHOOSE i \in 1..Len(candidates) :
                        /\ \A j \in 1..Len(candidates) :
                              candidates[j].deliverabilityScore
                                  <= candidates[i].deliverabilityScore
                        /\ \A j \in 1..(i - 1) :
                              candidates[j].deliverabilityScore
                                  < candidates[i].deliverabilityScore
         IN  <<candidates[best]>>

NoEmailFound ==
    [email |-> <<>>, isValid |-> FALSE, deliverabilityScore |-> 0,
     verificationStatus |-> "invalid", phoneNumber |-> <<>>]

\* verifyContact: if (bestEmail) ... else 'No email found'
BestOrNoEmail(bestEmail) == IF bestEmail # <<>> THEN bestEmail[1] ELSE NoEmailFound

\* verifyContact(lead)
verifyContact(lead, env) ==
    IF lead.email = <<>>
    THEN BestOrNoEmail(findBestEmail(generatePotentialEmails(lead, env)))
    ELSE VerifyWithEmail(lead, env)

\* verifyContact stores the address it found on the lead it was given
LeadAfterVerifyContact(lead, env) ==
    [lead EXCEPT !.email = IF lead.email = <<>> THEN verifyContact(lead, env).email
                           ELSE lead.email]

(***************************************************************************)
(* Raw candidates, as the source adapters build them                       *)
(* (transformApolloContacts, transformZoomInfoContacts, the mock profiles  *)
(* of LinkedInService): first and last name, a provenance tag, the         *)
(* provider's freshness and credibility stamps, and whichever of email,    *)
(* company, role, phone and profile URL the provider knows.                *)
(***************************************************************************)
NameAl == <<"A", "l">>
NameLee == <<"L", "e", "e">>
NameLeo == <<"L", "e", "o">>
NameKim == <<"K", "i", "m">>
EmailLower == <<"x", "@", "y", ".", "c">>
EmailUpper == <<"X", "@", "Y", ".", "c">>
EmailKim == <<"k", "@", "y", ".", "c">>
CompanyAcme == <<"A", "c">>
RoleCto == <<"C", "T", "O">>
PhoneOne == <<"5", "5", "1">>
PhoneTwo == <<"5", "5", "2">>
PhoneOneFormatted == <<"5", "-", "5", "1">>
ProfileUrl == <<"https://linkedin.com/in/", "a", "l">>

Candidate(src, em, last, co, ph, url) ==
    [EmptyLead EXCEPT
        !.firstName = NameAl, !.lastName = last, !.email = em,
        !.companyName = co, !.role = IF co = <<>> THEN <<>> ELSE RoleCto,
        !.phoneNumber = ph, !.linkedinUrl = url,
        !.emailVerified = (src # "linkedin"),
        !.sources = <<src>>,
        !.dataFreshnessScore = IF src = "apollo" THEN 85 ELSE 90,
        !.sourceCredibility = IF src = "apollo" THEN 90 ELSE 95,
        !.linkedinActivityScore = IF src = "linkedin" THEN 60 ELSE Undefined,
        !.contentEngagement = IF src = "linkedin" THEN 30 ELSE Undefined,
        !.lastUpdated = 0]

\* Apollo and ZoomInfo contacts carry an email; LinkedIn profiles carry a
\* profile URL and no email or phone.
CandidatePool ==
    {Candidate("apollo", EmailLower, last, co, ph, <<>>) :
        last \in {NameLee, NameLeo}, co \in {<<>>, CompanyAcme},
        ph \in {<<>>, PhoneOne}}
    \cup {Candidate("zoominfo", em, NameLee, co, ph, <<>>) :
            em \in {EmailLower, EmailUpper}, co \in {<<>>, CompanyAcme},
            ph \in {<<>>, PhoneOne, PhoneTwo}}
    \cup {Candidate("linkedin", <<>>, NameLee, CompanyAcme, <<>>, ProfileUrl)}

CandidateLists ==
    UNION {[1..n -> CandidatePool] : n \in 2..MaxCands}

\* What the three searches of a run can settle with (Promise.allSettled):
\* fulfilled with a list of leads, or rejected (the provider is down).
Rejected == [status |-> "rejected", value |-> <<>>]

Fulfilled(leads) == [status |-> "fulfilled", value |-> leads]

LinkedInResults ==
    {Rejected,
     Fulfilled(<<Candidate("linkedin", <<>>, NameLee, CompanyAcme, <<>>, ProfileUrl)>>)}

\* ApolloService.searchLeads catches its own errors and returns []
ApolloResults ==
    {Rejected,
     Fulfilled(<<>>),
     Fulfilled(<<Candidate("apollo", EmailLower, NameLee, CompanyAcme, <<>>, <<>>)>>),
     Fulfilled(<<Candidate("apollo", EmailLower, NameLee, CompanyAcme, <<>>, <<>>),
                 Candidate("apollo", EmailKim, NameKim, <<>>, PhoneTwo, <<>>)>>)}

\* a contact as the provider delivered it: an email field without '@' and
\* the company's website
MalformedContact ==
    [Candidate("zoominfo", <<"a", "l">>, NameLee, CompanyAcme, <<>>, <<>>)
        EXCEPT !.website = <<"https://", "y", ".", "c">>]

ZoomInfoResults ==
    {Rejected,
     Fulfilled(<<Candidate("zoominfo", EmailUpper, NameLee, CompanyAcme, PhoneOne, <<>>)>>),
     Fulfilled(<<MalformedContact>>)}

(***************************************************************************)
(* The per-lead tasks of the stages of a research run                      *)
(***************************************************************************)
\* A verification task that returns the verdict's fields without the lead
\* they belong to.
VerdictWithoutSpread(lead, verification) ==
    [EmptyLead EXCEPT
        !.firstName = lead.firstName, !.lastName = lead.lastName,
        !.email = verification.email,
        !.emailVerified = verification.isValid,
        !.emailDeliverabilityScore = verification.deliverabilityScore,
        !.phoneNumber = verification.phoneNumber]

VerifyLeadWithoutSpread(lead, env) ==
    VerdictWithoutSpread(lead, verifyContact(lead, env))

\* verifyContactInformation: { ...lead, emailVerified, emailDeliverabilityScore,
\* phoneNumber }
WithVerification(lead, verification) ==
    [lead EXCEPT
        !.emailVerified = verification.isValid,
        !.emailDeliverabilityScore = verification.deliverabilityScore,
        !.phoneNumber = verification.phoneNumber]

\* verifyContactInformation, the task of one lead
verifyLead(lead, env) ==
    WithVerification(LeadAfterVerifyContact(lead, env), verifyContact(lead, env))

\* What CompanyIntelligenceService.gatherIntelligence returns for a company
MockIntelligence ==
    [size |-> <<"250-500 employees">>, revenue |-> <<"$20M-$50M">>,
     funding |-> <<"Series B - $25M">>,
     techStack |-> <<<<"Salesforce">>, <<"HubSpot">>>>,
     growthSignals |-> <<<<"Hiring 50+ engineers">>>>,
     buyingSignals |-> <<<<"Budget approved for Q4">>>>,
     painPoints |-> <<<<"Lead attribution challenges">>>>]

\* An enrichment task that loses the lead when gatherIntelligence throws.
EnrichOrLoseLead(lead) ==
    IF lead.companyName = <<>> /\ lead.website = <<>> THEN EmptyLead
    ELSE [lead EXCEPT
            !.companySize = MockIntelligence.size,
            !.companyRevenue = MockIntelligence.revenue,
            !.companyFunding = MockIntelligence.funding,
            !.companyTechStack = MockIntelligence.techStack,
            !.companyGrowthSignals = MockIntelligence.growthSignals,
            !.buyingSignals = MockIntelligence.buyingSignals,
            !.painPointIndicators = MockIntelligence.painPoints]

\* enrichWithCompanyIntelligence, the task of one lead: gatherIntelligence
\* throws without a company name and a website, and the lead stays as it is
enrichLead(lead) ==
    IF lead.companyName = <<>> /\ lead.website = <<>> THEN lead
    ELSE [lead EXCEPT
            !.companySize = MockIntelligence.size,
            !.companyRevenue = MockIntelligence.revenue,
            !.companyFunding = MockIntelligence.funding,
            !.companyTechStack = MockIntelligence.techStack,
            !.companyGrowthSignals = MockIntelligence.growthSignals,
            !.buyingSignals = MockIntelligence.buyingSignals,
            !.painPointIndicators = MockIntelligence.painPoints]

Marketing == <<"m", "a", "r", "k", "e", "t", "i", "n", "g">>

techRoles ==
    {<<"e", "n", "g", "i", "n", "e", "e", "r">>,
     <<"d", "e", "v", "e", "l", "o", "p", "e", "r">>,
     <<"c", "t", "o">>,
     <<"t", "e", "c", "h", "n", "i", "c", "a", "l">>,
     <<"t", "e", "c", "h">>,
     <<"d", "a", "t", "a">>}

\* generateMockSocialSignals(lead): outcome is what Math.random decides
generateMockSocialSignals(lead, outcome) ==
    LET isSeniorRole == lead.seniority \in {<<"executive">>, <<"c-level">>}
        isMarketingRole == \/ Includes(ToLowerCase(lead.role), Marketing)
                           \/ Includes(ToLowerCase(lead.department), Marketing)
        isTechRole == \E term \in techRoles :
                          \/ Includes(ToLowerCase(lead.role), term)
                          \/ Includes(ToLowerCase(lead.department), term)
        baseActivity == IF isSeniorRole THEN 70 ELSE IF isMarketingRole THEN 80 ELSE 60
        linkedinActivity == Max(20, Min(100, baseActivity + outcome.activityVariance))
    IN  [linkedinActivity |-> linkedinActivity,
         contentEngagement |-> (linkedinActivity * 9) \div 10 + 10,
         jobChangeSignals |-> outcome.jobChangeSignals,
         recentActivity |-> <<<<"Shared an article">>>>,
         socialProfiles |->
            [twitter |-> IF isMarketingRole /\ outcome.profiles
                         THEN <<"twitter">> ELSE <<>>,
             github |-> IF isTechRole /\ outcome.profiles
                        THEN <<"github">> ELSE <<>>]]

SocialOutcomes ==
    {[activityVariance |-> 0 - 10, jobChangeSignals |-> FALSE, profiles |-> FALSE],
     [activityVariance |-> 9, jobChangeSignals |-> TRUE, profiles |-> TRUE]}

\* analyzeSocialSignals, the task of one lead
socialLead(lead, outcome) ==
    LET signals == generateMockSocialSignals(lead, outcome)
    IN  [lead EXCEPT
            !.linkedinActivityScore = signals.linkedinActivity,
            !.contentEngagement = signals.contentEngagement,
            !.jobChangeSignals = <<signals.jobChangeSignals>>,
            !.recentActivity = signals.recentActivity,
            !.socialProfiles = <<signals.socialProfiles>>]

IcpDetails ==
    [targetRole |-> <<"c", "t", "o">>, companySize |-> <<"250-500 employees">>]

\* generateAdvancedFallbackAnalysis(lead, icpDetails, userContext).interestRating
generateAdvancedFallbackAnalysis(lead, icpDetails) ==
    LET interestRating ==
            65
            + (IF lead.role # <<>> /\ icpDetails.targetRole # <<>>
                  /\ Includes(ToLowerCase(lead.role), ToLowerCase(icpDetails.targetRole))
               THEN 20 ELSE 0)
            + (IF lead.companySize # <<>> /\ icpDetails.companySize # <<>>
               THEN 10 ELSE 0)
            + (IF lead.emailVerified THEN 10 ELSE 0)
            + (IF IsTruthyNum(lead.linkedinActivityScore)
                  /\ lead.linkedinActivityScore > 70
               THEN 5 ELSE 0)
    IN  Min(100, interestRating)

\* What the analysis of one lead can come to: the language model's answer
\* with its interestRating, the fallback analysis (no model configured, or
\* its answer does not parse), or an exception.
ScoringOutcomes ==
    {[kind |-> "ai", interestRating |-> 68, summary |-> <<>>,
      competitorAnalysis |-> <<>>],
     [kind |-> "ai", interestRating |-> 72, summary |-> <<"Strong fit">>,
      competitorAnalysis |-> <<"Uses a competing tool">>],
     [kind |-> "fallback", interestRating |-> 0, summary |-> <<"Profile alignment">>,
      competitorAnalysis |-> <<"Appears to be in a growth phase">>],
     [kind |-> "throws", interestRating |-> 0, summary |-> <<>>,
      competitorAnalysis |-> <<>>]}

\* scoreAndQualifyLeads, the task of one lead; ratings in tenths, the rating
\* of the catch branch is 6.5
scoreLead(lead, outcome) ==
    CASE outcome.kind = "ai" ->
            [lead EXCEPT
                !.interestRating = 10 * Max(1, Min(100, outcome.interestRating)),
                !.competitorAnalysis = outcome.competitorAnalysis,
                !.aboutSummary = outcome.summary]
      [] outcome.kind = "fallback" ->
            [lead EXCEPT
                !.interestRating = 10 * generateAdvancedFallbackAnalysis(lead, IcpDetails),
                !.competitorAnalysis = outcome.competitorAnalysis,
                !.aboutSummary = outcome.summary]
      [] OTHER -> [lead EXCEPT !.interestRating = 65]

\* A comparator that orders by rating alone, ascending.
AscendingCompare(a, b) == OrElse(a.interestRating, 0) - OrElse(b.interestRating, 0)

Abs(x) == IF x < 0 THEN 0 - x ELSE x

\* The comparator of prioritizeLeads; ratings are in tenths, so the gap of 5
\* is 50
prioritizeCompare(a, b) ==
    LET scoreDiff == OrElse(b.interestRating, 0) - OrElse(a.interestRating, 0)
        aBehavioral == OrElse(a.linkedinActivityScore, 0) + OrElse(a.contentEngagement, 0)
        bBehavioral == OrElse(b.linkedinActivityScore, 0) + OrElse(b.contentEngagement, 0)
        behavioralDiff == bBehavioral - aBehavioral
        aQuality == OrElse(a.dataFreshnessScore, 0) + OrElse(a.sourceCredibility, 0)
        bQuality == OrElse(b.dataFreshnessScore, 0) + OrElse(b.sourceCredibility, 0)
    IN  IF Abs(scoreDiff) > 50 THEN scoreDiff
        ELSE IF Abs(behavioralDiff) > 10 THEN behavioralDiff
        ELSE bQuality - aQuality

Perms(s) ==
    {[i \in 1..Len(s) |-> s[p[i]]] :
        p \in {q \in [1..Len(s) -> 1..Len(s)] : \A i, j \in 1..Len(s) : q[i] = q[j] => i = j}}

\* leads.sort(comparator): the comparator is not transitive, so the order is
\* whatever the engine's insertion and merge steps leave: every element ends
\* up between two neighbours it was compared with
prioritizeLeads(leads) ==
    {p \in Perms(leads) :
        \A i \in 1..(Len(p) - 1) : prioritizeCompare(p[i], p[i + 1]) <= 0}

\* RESEARCH_CONFIG.minQualityScore, 7.0 in tenths
minQualityScore == 70

\* RESEARCH_CONFIG.maxLeadsPerCampaign
maxLeadsPerCampaign == 100

\* params.targetCount || RESEARCH_CONFIG.maxLeadsPerCampaign
EffectiveCount(count) == OrElse(count, maxLeadsPerCampaign)

\* Step 8 of conductAdvancedResearch: filter, then slice
filterAndSlice(leads, threshold, count) ==
    LET Passes(lead) == OrElse(lead.interestRating, 0) >= OrElse(threshold, minQualityScore)
        passing == SelectSeq(leads, Passes)
    IN  SubSeq(passing, 1, Min(Len(passing), EffectiveCount(count)))

(***************************************************************************)
(* LeadScoringService: the scoring factors and the composite score         *)
(***************************************************************************)
\* text.includes(phrase) for some phrase of a list
IncludesAny(text, phrases) == \E phrase \in phrases : Includes(text, phrase)

\* array.filter(item => phrases.some(phrase => item.toLowerCase().includes(phrase))).length
CountMatching(items, phrases) ==
    Cardinality({i \in 1..Len(items) : IncludesAny(ToLowerCase(items[i]), phrases)})

TermSeparators == {" ", ","}

\* str.split(/[\s,]+/): a separator at either end leaves an empty term there
RECURSIVE SplitTerms(_)
SplitTerms(s) ==
    LET seps == {i \in 1..Len(s) : s[i] \in TermSeparators}
    IN  IF seps = {} THEN <<s>>
        ELSE LET first == CHOOSE i \in seps : \A j \in seps : i <= j
                 afterRun == CHOOSE k \in (first + 1)..(Len(s) + 1) :
                                /\ \A j \in first..(k - 1) : s[j] \in TermSeparators
                                /\ (k = Len(s) + 1 \/ s[k] \notin TermSeparators)
             IN  <<SubSeq(s, 1, first - 1)>> \o SplitTerms(SubSeq(s, afterRun, Len(s)))

\* calculateRoleMatch returns Math.min(100, matches / targetTerms.length * 120);
\* the model keeps the value as the fraction <<numerator, denominator>>
calculateRoleMatch(leadRole, targetRole) ==
    IF leadRole = <<>> \/ targetRole = <<>> THEN <<50, 1>>
    ELSE LET leadTerms == SplitTerms(ToLowerCase(leadRole))
             targetTerms == SplitTerms(ToLowerCase(targetRole))
             matches == {i \in 1..Len(targetTerms) :
                            \E j \in 1..Len(leadTerms) :
                                \/ Includes(leadTerms[j], targetTerms[i])
                                \/ Includes(targetTerms[i], leadTerms[j])}
         IN  IF 120 * Cardinality(matches) >= 100 * Len(targetTerms) THEN <<100, 1>>
             ELSE <<120 * Cardinality(matches), Len(targetTerms)>>

\* the keys of seniorityMap, at the position of their level
seniorityLevels == <<"junior", "mid", "senior", "executive", "c-level">>

\* seniorityMap[seniority], Undefined for any other key
seniorityMap(seniority) ==
    LET hits == {i \in 1..Len(seniorityLevels) : <<seniorityLevels[i]>> = seniority}
    IN  IF hits = {} THEN Undefined ELSE CHOOSE i \in hits : TRUE

\* calculateSeniorityMatch; a lead's seniority is one of the five levels
\* (the adapters map every provider value onto them)
calculateSeniorityMatch(leadSeniority, targetSeniority) ==
    IF leadSeniority = <<>> \/ targetSeniority = <<>> THEN 70
    ELSE LET leadLevel == seniorityMap(leadSeniority)
             targetLevel == OrElse(seniorityMap(ToLowerCase(targetSeniority)), 3)
             difference == Abs(leadLevel - targetLevel)
         IN  Max(0, 100 - difference * 20)

extractEmployeeCount(sizeString) ==
    IF Includes(sizeString, <<"1", "-", "1", "0">>) THEN 1
    ELSE IF Includes(sizeString, <<"1", "1", "-", "5", "0">>) \/ Includes(sizeString, <<"2", "5", "-", "5", "0">>) THEN 2
    ELSE IF Includes(sizeString, <<"5", "1", "-", "2", "0", "0">>) \/ Includes(sizeString, <<"1", "0", "0", "-", "2", "5", "0">>) THEN 3
    ELSE IF Includes(sizeString, <<"2", "0", "1", "-", "1", "0", "0", "0">>) \/ Includes(sizeString, <<"2", "5", "0", "-", "5", "0", "0">>) THEN 4
    ELSE IF Includes(sizeString, <<"1", "0", "0", "1", "-", "5", "0", "0", "0">>) \/ Includes(sizeString, <<"5", "0", "0", "-", "1", "0", "0", "0">>) THEN 5
    ELSE IF Includes(sizeString, <<"5", "0", "0", "0", "+">>) \/ Includes(sizeString, <<"1", "0", "0", "0", "+">>) THEN 6
    ELSE 3

calculateCompanyMatch(leadSize, targetSize) ==
    IF leadSize = <<>> \/ targetSize = <<>> THEN 60
    ELSE LET leadNum == extractEmployeeCount(leadSize)
             targetNum == extractEmployeeCount(targetSize)
         IN  IF leadNum = targetNum THEN 100
             ELSE IF Abs(leadNum - targetNum) <= 1 THEN 80
             ELSE IF Abs(leadNum - targetNum) <= 2 THEN 60
             ELSE 40

\* str.split(',').map(s => s.trim())
SplitParts(s) ==
    LET parts == Split(s, ",")
    IN  [i \in 1..Len(parts) |-> Trim(parts[i])]

calculateLocationMatch(leadLocation, targetLocation) ==
    IF leadLocation = <<>> \/ targetLocation = <<>> THEN 70
    ELSE LET leadLower == ToLowerCase(leadLocation)
             targetLower == ToLowerCase(targetLocation)
         IN  IF Includes(leadLower, targetLower) \/ Includes(targetLower, leadLower)
             THEN 100
             ELSE IF Range(SplitParts(leadLower)) \cap Range(SplitParts(targetLower)) # {}
             THEN 75
             ELSE 30

techTerms ==
    {<<"t", "e", "c", "h">>,
     <<"s", "o", "f", "t", "w", "a", "r", "e">>,
     <<"s", "a", "a", "s">>,
     <<"a", "i">>,
     <<"d", "a", "t", "a">>}

calculateIndustryMatch(leadIndustry, targetIndustry) ==
    IF leadIndustry = <<>> \/ targetIndustry = <<>> THEN 60
    ELSE LET leadLower == ToLowerCase(leadIndustry)
             targetLower == ToLowerCase(targetIndustry)
         IN  IF leadLower = targetLower THEN 100
             ELSE IF Includes(leadLower, targetLower) \/ Includes(targetLower, leadLower)
             THEN 85
             ELSE IF IncludesAny(leadLower, techTerms) /\ IncludesAny(targetLower, techTerms)
             THEN 70
             ELSE 40

strongSignals ==
    {<<"b", "u", "d", "g", "e", "t", " ", "a", "p", "p", "r", "o", "v", "e", "d">>,
     <<"s", "e", "e", "k", "i", "n", "g", " ", "v", "e", "n", "d", "o", "r", "s">>,
     <<"e", "v", "a", "l", "u", "a", "t", "i", "o", "n", " ", "p", "h", "a", "s", "e">>,
     <<"r", "f", "p", " ", "p", "r", "o", "c", "e", "s", "s">>,
     <<"i", "m", "p", "l", "e", "m", "e", "n", "t", "a", "t", "i", "o", "n", " ", "t", "i", "m", "e", "l", "i", "n", "e">>,
     <<"c", "o", "n", "t", "r", "a", "c", "t", " ", "r", "e", "n", "e", "w", "a", "l">>}

calculateBuyingSignals(signals) ==
    IF Len(signals) = 0 THEN 30
    ELSE LET strongCount == CountMatching(signals, strongSignals)
         IN  Min(100, 40 + strongCount * 20 + Len(signals) * 5)

commonPains ==
    {<<"l", "e", "a", "d", " ", "g", "e", "n", "e", "r", "a", "t", "i", "o", "n">>,
     <<"c", "o", "n", "v", "e", "r", "s", "i", "o", "n">>,
     <<"a", "t", "t", "r", "i", "b", "u", "t", "i", "o", "n">>,
     <<"a", "u", "t", "o", "m", "a", "t", "i", "o", "n">>,
     <<"e", "f", "f", "i", "c", "i", "e", "n", "c", "y">>,
     <<"s", "c", "a", "l", "e">>,
     <<"r", "o", "i">>,
     <<"p", "i", "p", "e", "l", "i", "n", "e">>}

calculatePainPointAlignment(painPoints) ==
    IF Len(painPoints) = 0 THEN 40
    ELSE LET alignedCount == CountMatching(painPoints, commonPains)
         IN  Min(100, 30 + alignedCount * 15 + Len(painPoints) * 5)

completenessFields ==
    {"firstName", "lastName", "email", "role", "companyName", "linkedinUrl",
     "website", "companySize", "aboutSummary"}

calculateDataCompleteness(lead) ==
    LET completedFields == Cardinality({f \in completenessFields : Len(lead[f]) > 0})
    IN  RoundDiv(completedFields * 100, Cardinality(completenessFields))

positiveSignals ==
    {<<"f", "u", "n", "d", "i", "n", "g">>,
     <<"e", "x", "p", "a", "n", "s", "i", "o", "n">>,
     <<"h", "i", "r", "i", "n", "g">>,
     <<"g", "r", "o", "w", "t", "h">>,
     <<"r", "e", "v", "e", "n", "u", "e", " ", "i", "n", "c", "r", "e", "a", "s", "e">>,
     <<"n", "e", "w", " ", "m", "a", "r", "k", "e", "t">>,
     <<"a", "c", "q", "u", "i", "s", "i", "t", "i", "o", "n">>,
     <<"p", "a", "r", "t", "n", "e", "r", "s", "h", "i", "p">>}

calculateCompanyGrowth(growthSignals) ==
    IF Len(growthSignals) = 0 THEN 50
    ELSE Min(100, 30 + CountMatching(growthSignals, positiveSignals) * 20)

compatibleTech ==
    {<<"s", "a", "l", "e", "s", "f", "o", "r", "c", "e">>,
     <<"h", "u", "b", "s", "p", "o", "t">>,
     <<"m", "a", "r", "k", "e", "t", "o">>,
     <<"p", "a", "r", "d", "o", "t">>,
     <<"o", "u", "t", "r", "e", "a", "c", "h">>,
     <<"m", "a", "i", "l", "c", "h", "i", "m", "p">>,
     <<"p", "i", "p", "e", "d", "r", "i", "v", "e">>,
     <<"m", "o", "n", "d", "a", "y">>,
     <<"s", "l", "a", "c", "k">>,
     <<"z", "o", "o", "m">>}

calculateTechnologyFit(techStack) ==
    IF Len(techStack) = 0 THEN 50
    ELSE LET compatibleCount ==
                 Cardinality({i \in 1..Len(techStack) :
                     \E compatible \in compatibleTech :
                         \/ Includes(ToLowerCase(techStack[i]), compatible)
                         \/ Includes(compatible, ToLowerCase(techStack[i]))})
         IN  Min(100, 40 + compatibleCount * 15)

calculateFundingStage(funding) ==
    IF funding = <<>> THEN 60
    ELSE LET fundingLower == ToLowerCase(funding)
         IN  IF Includes(fundingLower, <<"s", "e", "r", "i", "e", "s", " ", "a">>) THEN 70
             ELSE IF Includes(fundingLower, <<"s", "e", "r", "i", "e", "s", " ", "b">>) THEN 80
             ELSE IF Includes(fundingLower, <<"s", "e", "r", "i", "e", "s", " ", "c">>) THEN 90
             ELSE IF Includes(fundingLower, <<"i", "p", "o">>) \/ Includes(fundingLower, <<"p", "u", "b", "l", "i", "c">>)
             THEN 95
             ELSE IF Includes(fundingLower, <<"s", "e", "e", "d">>) THEN 60
             ELSE IF Includes(fundingLower, <<"b", "o", "o", "t", "s", "t", "r", "a", "p">>) THEN 50
             ELSE 65

calculateCompetitorFit(competitorAnalysis) ==
    IF competitorAnalysis = <<>> THEN 60
    ELSE LET lower == ToLowerCase(competitorAnalysis)
         IN  IF Includes(lower, <<"s", "t", "r", "o", "n", "g", " ", "f", "i", "t">>) THEN 90
             ELSE IF Includes(lower, <<"g", "o", "o", "d", " ", "f", "i", "t">>) THEN 75
             ELSE IF Includes(lower, <<"p", "o", "t", "e", "n", "t", "i", "a", "l">>) THEN 65
             ELSE 60

calculateNetworkQuality(connections) ==
    IF ~IsTruthyNum(connections) THEN 50
    ELSE IF connections > 3000 THEN 90
    ELSE IF connections > 1500 THEN 80
    ELSE IF connections > 500 THEN 70
    ELSE IF connections > 250 THEN 60
    ELSE 40

leadershipSignals ==
    {<<"p", "u", "b", "l", "i", "s", "h", "e", "d">>,
     <<"s", "p", "o", "k", "e", " ", "a", "t">>,
     <<"k", "e", "y", "n", "o", "t", "e">>,
     <<"i", "n", "t", "e", "r", "v", "i", "e", "w", "e", "d">>,
     <<"a", "r", "t", "i", "c", "l", "e">>,
     <<"w", "e", "b", "i", "n", "a", "r">>,
     <<"p", "o", "d", "c", "a", "s", "t">>,
     <<"c", "o", "n", "f", "e", "r", "e", "n", "c", "e">>}

calculateThoughtLeadership(recentActivity) ==
    IF Len(recentActivity) = 0 THEN 40
    ELSE LET leadershipCount == CountMatching(recentActivity, leadershipSignals)
         IN  Min(100, 30 + leadershipCount * 25 + Len(recentActivity) * 5)

calculateSocialValidation(lead) ==
    LET HasProfile(network) ==
            lead.socialProfiles # <<>> /\ lead.socialProfiles[1][network] # <<>>
        score == 50
                 + (IF lead.linkedinUrl # <<>> THEN 15 ELSE 0)
                 + (IF HasProfile("twitter") THEN 10 ELSE 0)
                 + (IF HasProfile("github") THEN 10 ELSE 0)
                 + (IF Len(lead.aboutSummary) > 100 THEN 10 ELSE 0)
    IN  Min(100, score)

\* dataPoints?.location, dataPoints?.industry: the empty string when absent
DataPoint(lead, key) ==
    IF lead.dataPoints[key] = <<>> THEN <<>> ELSE lead.dataPoints[key][1]

\* calculateScoringFactors(lead, icpDetails); mutualConnections is what
\* Math.floor(Math.random() * 30) + 20 comes to
calculateScoringFactors(lead, icpDetails, mutualConnections) ==
    [roleMatch |-> calculateRoleMatch(lead.role, icpDetails.targetRole),
     seniorityMatch |-> calculateSeniorityMatch(lead.seniority, icpDetails.seniority),
     companyMatch |-> calculateCompanyMatch(lead.companySize, icpDetails.companySize),
     locationMatch |->
        calculateLocationMatch(DataPoint(lead, "location"), icpDetails.location),
     industryMatch |->
        calculateIndustryMatch(DataPoint(lead, "industry"), icpDetails.targetIndustry),
     linkedinActivity |-> OrElse(lead.linkedinActivityScore, 50),
     contentEngagement |-> OrElse(lead.contentEngagement, 40),
     jobChangeLikelihood |-> IF lead.jobChangeSignals = <<TRUE>> THEN 80 ELSE 30,
     buyingSignals |-> calculateBuyingSignals(lead.buyingSignals),
     painPointAlignment |-> calculatePainPointAlignment(lead.painPointIndicators),
     dataCompleteness |-> calculateDataCompleteness(lead),
     dataFreshness |-> OrElse(lead.dataFreshnessScore, 70),
     sourceCredibility |-> OrElse(lead.sourceCredibility, 75),
     emailVerification |-> OrElse(lead.emailDeliverabilityScore, 60),
     companyGrowth |-> calculateCompanyGrowth(lead.companyGrowthSignals),
     technologyFit |-> calculateTechnologyFit(lead.companyTechStack),
     fundingStage |-> calculateFundingStage(lead.companyFunding),
     competitorAnalysis |-> calculateCompetitorFit(lead.competitorAnalysis),
     networkQuality |-> calculateNetworkQuality(lead.linkedinConnections),
     thoughtLeadership |-> calculateThoughtLeadership(lead.recentActivity),
     mutualConnections |-> mutualConnections,
     socialValidation |-> calculateSocialValidation(lead)]

\* SCORING_WEIGHTS, in hundredths
SCORING_WEIGHTS ==
    [demographic |-> 25, behavioral |-> 30, dataQuality |-> 15,
     companyIntel |-> 20, socialProof |-> 10]

assignTier(score) ==
    IF score >= 90 THEN "A+"
    ELSE IF score >= 80 THEN "A"
    ELSE IF score >= 70 THEN "B+"
    ELSE IF score >= 60 THEN "B"
    ELSE IF score >= 50 THEN "C+"
    ELSE IF score >= 40 THEN "C"
    ELSE "D"

\* assignPriority(overallScore, behavioralScore); the behavioural score is
\* behavioralSum / 5
assignPriority(overallScore, behavioralSum) ==
    IF overallScore >= 75 /\ behavioralSum >= 5 * 70 THEN "high"
    ELSE IF overallScore >= 60 THEN "medium"
    ELSE "low"

\* Math.round((dataCompleteness + sourceCredibility) / 2 * 1.2)
RoundedConfidence(factors) ==
    RoundDiv(6 * (factors.dataCompleteness + factors.sourceCredibility), 10)

\* The LeadScore of calculateCompositeScore for a given confidence.  The
\* five category scores are means over 5, 5, 4, 4 and 4 factors and the
\* weights are hundredths, so the weighted sum is taken over the common
\* denominator 20 * 100, times the denominator of roleMatch.
LeadScore(factors, confidence) ==
    LET den == factors.roleMatch[2]
        demographicSum ==
            factors.roleMatch[1]
            + den * (factors.seniorityMatch + factors.companyMatch
                     + factors.locationMatch + factors.industryMatch)
        behavioralSum ==
            factors.linkedinActivity + factors.contentEngagement
            + factors.jobChangeLikelihood + factors.buyingSignals
            + factors.painPointAlignment
        dataQualitySum ==
            factors.dataCompleteness + factors.dataFreshness
            + factors.sourceCredibility + factors.emailVerification
        companyIntelSum ==
            factors.companyGrowth + factors.technologyFit
            + factors.fundingStage + factors.competitorAnalysis
        socialProofSum ==
            factors.networkQuality + factors.thoughtLeadership
            + factors.mutualConnections + factors.socialValidation
        overallScore ==
            RoundDiv(4 * SCORING_WEIGHTS.demographic * demographicSum
                     + den * (4 * SCORING_WEIGHTS.behavioral * behavioralSum
                              + 5 * SCORING_WEIGHTS.dataQuality * dataQualitySum
                              + 5 * SCORING_WEIGHTS.companyIntel * companyIntelSum
                              + 5 * SCORING_WEIGHTS.socialProof * socialProofSum),
                     20 * 100 * den)
    IN  [overallScore |-> overallScore,
         confidence |-> confidence,
         tier |-> assignTier(overallScore),
         priority |-> assignPriority(overallScore, behavioralSum),
         factors |-> factors]

\* A composite score whose confidence is not capped at 100.
UncappedCompositeScore(factors) == LeadScore(factors, RoundedConfidence(factors))

\* calculateCompositeScore(factors)
calculateCompositeScore(factors) ==
    LeadScore(factors, Min(100, RoundedConfidence(factors)))

\* fallbackScoring(lead, icpDetails): 50 + (roleMatch - 50) * 0.3 and the
\* bonuses, rounded and clamped to 30..100
fallbackScoring(lead, icpDetails) ==
    LET roleMatch == calculateRoleMatch(lead.role, icpDetails.targetRole)
        bonus == (IF lead.emailVerified THEN 15 ELSE 0)
                 + (IF lead.linkedinUrl # <<>> THEN 10 ELSE 0)
                 + (IF lead.companyName # <<>> THEN 10 ELSE 0)
        score == RoundDiv(10 * roleMatch[2] * (50 + bonus)
                          + 3 * (roleMatch[1] - 50 * roleMatch[2]),
                          10 * roleMatch[2])
    IN  Max(30, Min(100, score))

(***************************************************************************)
(* Spec: a research run, one action per stage of conductAdvancedResearch   *)
(***************************************************************************)
VerificationEnvs == [dns : DnsOutcomes, external : {"unknown", "valid"}]

\* the values of params.targetCount and params.qualityThreshold (in tenths)
TargetCounts == {Undefined, 0, 1, 2}

QualityThresholds == {Undefined, 0, 50, 700}

\* ICPDetails with every optional field missing
EmptyIcp ==
    [targetRole |-> <<>>, seniority |-> <<>>, companySize |-> <<>>,
     location |-> <<>>, targetIndustry |-> <<>>]

ScoreIdle ==
    /\ scoreIcp = EmptyIcp
    /\ leadMetrics = <<>>
    /\ leadScore = <<>>

SimIdle ==
    /\ lead1 = EmptyLead
    /\ lead2 = EmptyLead
    /\ prevScore = 0
    /\ lastField = "none"
    /\ ScoreIdle

LimiterIdle ==
    /\ stage = "idle"
    /\ jobs = <<>>
    /\ inFlight = <<>>
    /\ hasEmail = <<>>
    /\ cancelRequested = FALSE

NoRunResults ==
    /\ settled = <<>>
    /\ verifications = <<>>
    /\ verifiedLeads = <<>>
    /\ enrichedLeads = <<>>
    /\ socialEnrichedLeads = <<>>
    /\ scoredLeads = <<>>
    /\ prioritizedLeads = <<>>
    /\ finalLeads = <<>>
    /\ targetCount = Undefined
    /\ qualityThreshold = Undefined

ContactIdle ==
    /\ dnsAnswer = "mx"
    /\ providerAnswers = <<>>
    /\ called = <<>>
    /\ externalResult = <<>>
    /\ verdict = <<>>

TaskIdle ==
    /\ taskStage = "none"
    /\ taskInput = <<>>
    /\ taskResults = <<>>
    /\ completed = <<>>
    /\ stageOutput = <<>>

CampaignIdle ==
    /\ campaignStatus = "DRAFT"
    /\ runPc = <<>>
    /\ writes = <<>>
    /\ leadsSaved = <<>>
    /\ thrown = <<>>

AsyncIdle == TaskIdle /\ CampaignIdle

DedupLoopIdle ==
    /\ qualityAssessedList = <<>>
    /\ uniqueLeads = <<>>
    /\ leadIndex = 0

NoStageResults ==
    /\ LimiterIdle
    /\ NoRunResults
    /\ DedupLoopIdle
    /\ ContactIdle

Init ==
    /\ AsyncIdle
    /\ pc = "start"
    /\ rawLeads = <<>>
    /\ cleanedLeads = <<>>
    /\ NoStageResults
    /\ SimIdle

\* A discovery that drops every result.
NoneSettled(result) == <<>>

\* if (result.status === 'fulfilled' && result.value) allLeads.push(...result.value)
Settled(result) == IF result.status = "fulfilled" THEN result.value ELSE <<>>

\* Step 1, discoverLeadsFromMultipleSources: the three searches settle, the
\* fulfilled ones are concatenated in the order linkedin, apollo, zoominfo
Discover ==
    /\ pc = "start"
    /\ \E linkedin \in LinkedInResults, apollo \in ApolloResults,
          zoominfo \in ZoomInfoResults :
            /\ settled' = <<linkedin, apollo, zoominfo>>
            /\ rawLeads' = Settled(linkedin) \o Settled(apollo) \o Settled(zoominfo)
    /\ pc' = "discovered"
    /\ UNCHANGED <<cleanedLeads, stageVars, paramVars, simVars, dedupVars,
                   contactVars, asyncVars>>

\* Step 2, DataQualityService.processLeads; an exception of the quality
\* assessment fails the run
ProcessLeads ==
    /\ pc = "discovered"
    /\ IF \E i \in 1..Len(rawLeads) : ConsistencyThrows(rawLeads[i])
       THEN pc' = "failed" /\ UNCHANGED cleanedLeads
       ELSE pc' = "cleaned" /\ cleanedLeads' = processLeads(rawLeads)
    /\ UNCHANGED <<settled, rawLeads, stageVars, paramVars, simVars, dedupVars,
                   contactVars, asyncVars>>

\* Step 3, verifyContactInformation.  verifyContact writes the address it
\* synthesized into the lead object, which is the one cleanedLeads holds.
VerifyContactInformation ==
    /\ pc = "cleaned"
    /\ \E env \in VerificationEnvs :
        /\ verifications' = [i \in 1..Len(cleanedLeads) |->
                                verifyContact(cleanedLeads[i], env)]
        /\ verifiedLeads' = [i \in 1..Len(cleanedLeads) |->
                                verifyLead(cleanedLeads[i], env)]
        /\ cleanedLeads' = [i \in 1..Len(cleanedLeads) |->
                               LeadAfterVerifyContact(cleanedLeads[i], env)]
    /\ pc' = "verified"
    /\ UNCHANGED <<settled, rawLeads, enrichedLeads, socialEnrichedLeads, scoredLeads,
                   prioritizedLeads, finalLeads, paramVars, simVars,
                   dedupVars, contactVars, asyncVars>>

\* Step 4, enrichWithCompanyIntelligence
EnrichWithCompanyIntelligence ==
    /\ pc = "verified"
    /\ enrichedLeads' = [i \in 1..Len(verifiedLeads) |-> enrichLead(verifiedLeads[i])]
    /\ pc' = "enriched"
    /\ UNCHANGED <<settled, rawLeads, cleanedLeads, verifications, verifiedLeads,
                   socialEnrichedLeads, scoredLeads, prioritizedLeads, finalLeads,
                   paramVars, simVars, dedupVars,
                   contactVars, asyncVars>>

\* Step 5, analyzeSocialSignals
AnalyzeSocialSignals ==
    /\ pc = "enriched"
    /\ \E outcomes \in [1..Len(enrichedLeads) -> SocialOutcomes] :
        socialEnrichedLeads' = [i \in 1..Len(enrichedLeads) |->
                                   socialLead(enrichedLeads[i], outcomes[i])]
    /\ pc' = "social"
    /\ UNCHANGED <<settled, rawLeads, cleanedLeads, verifications, verifiedLeads,
                   enrichedLeads, scoredLeads, prioritizedLeads, finalLeads,
                   paramVars, simVars, dedupVars,
                   contactVars, asyncVars>>

\* Step 6, scoreAndQualifyLeads
ScoreAndQualifyLeads ==
    /\ pc = "social"
    /\ \E outcomes \in [1..Len(socialEnrichedLeads) -> ScoringOutcomes] :
        scoredLeads' = [i \in 1..Len(socialEnrichedLeads) |->
                           scoreLead(socialEnrichedLeads[i], outcomes[i])]
    /\ pc' = "scored"
    /\ UNCHANGED <<settled, rawLeads, cleanedLeads, verifications, verifiedLeads,
                   enrichedLeads, socialEnrichedLeads, prioritizedLeads,
                   finalLeads, paramVars, simVars, dedupVars,
                   contactVars, asyncVars>>

\* Step 7, LeadScoringService.prioritizeLeads: sort sorts the array of
\* scoredLeads in place and returns it
PrioritizeLeads ==
    /\ pc = "scored"
    /\ \E sorted \in prioritizeLeads(scoredLeads) :
        /\ prioritizedLeads' = sorted
        /\ scoredLeads' = sorted
    /\ pc' = "prioritized"
    /\ UNCHANGED <<settled, rawLeads, cleanedLeads, verifications, verifiedLeads,
                   enrichedLeads, socialEnrichedLeads, finalLeads, paramVars,
                   simVars, dedupVars, contactVars, asyncVars>>

\* Step 8, the quality filter and the cut; params.qualityThreshold and
\* params.targetCount are read here and nowhere else
FilterAndSlice ==
    /\ pc = "prioritized"
    /\ \E count \in TargetCounts, threshold \in QualityThresholds :
        /\ targetCount' = count
        /\ qualityThreshold' = threshold
        /\ finalLeads' = filterAndSlice(prioritizedLeads, threshold, count)
    /\ pc' = "done"
    /\ UNCHANGED <<settled, rawLeads, cleanedLeads, verifications, verifiedLeads,
                   enrichedLeads, socialEnrichedLeads, scoredLeads,
                   prioritizedLeads, simVars, dedupVars,
                   contactVars, asyncVars>>

Next ==
    \/ Discover
    \/ ProcessLeads
    \/ VerifyContactInformation
    \/ EnrichWithCompanyIntelligence
    \/ AnalyzeSocialSignals
    \/ ScoreAndQualifyLeads
    \/ PrioritizeLeads
    \/ FilterAndSlice

Spec == Init /\ [][Next]_vars

(***************************************************************************)
(* DedupSpec: processLeads on a list of raw candidates                     *)
(***************************************************************************)
DedupInit ==
    /\ AsyncIdle
    /\ pc = "discovered"
    /\ rawLeads \in CandidateLists
    /\ cleanedLeads = <<>>
    /\ NoStageResults
    /\ SimIdle

DedupNext == ProcessLeads

DedupSpec == DedupInit /\ [][DedupNext]_vars

(***************************************************************************)
(* Deduplication and merge: properties under DedupSpec                     *)
(***************************************************************************)
SourceSet(lead) == Range(lead.sources)

SameEmailIgnoringCase(a, b) ==
    /\ a.email # <<>>
    /\ b.email # <<>>
    /\ ToLowerCase(a.email) = ToLowerCase(b.email)

\* The identifying fields of the pair bring the similarity above the merge
\* threshold: beside the email (+50) the names are alike (+30) and the
\* company (+10), the phone digits (+25) or the profile URL (+40) match.
MatchBeyondEmail(a, b) ==
    /\ RatioAbove(calculateStringSimilarity(FullName(a), FullName(b)), 8)
    /\ \/ a.companyName # <<>> /\ ToLowerCase(a.companyName) = ToLowerCase(b.companyName)
       \/ a.phoneNumber # <<>> /\ b.phoneNumber # <<>>
            /\ CleanPhone(a.phoneNumber) = CleanPhone(b.phoneNumber)
       \/ a.linkedinUrl # <<>> /\ a.linkedinUrl = b.linkedinUrl

IsPair == pc = "cleaned" /\ Len(rawLeads) = 2

OneRecordWithUnionOfSources ==
    /\ Len(cleanedLeads) = 1
    /\ SourceSet(cleanedLeads[1]) = SourceSet(rawLeads[1]) \cup SourceSet(rawLeads[2])

FieldValues(lead) ==
    [key \in (StringFields \cup NumberFields \cup BooleanFields \cup OptionFields)
                \ {"duplicateRisk"} |-> lead[key]]
        @@ [sources |-> SourceSet(lead)]

CanonicalSet(unique) == {FieldValues(unique[i]) : i \in 1..Len(unique)}

\* C2: deduplication is order-independent: every permutation of the same
\* candidates yields the same set of canonical records with the same final
\* field values.
C2_OrderIndependent ==
    pc = "cleaned" =>
        \A p \in Perms(rawLeads) :
            CanonicalSet(processLeads(p)) = CanonicalSet(cleanedLeads)

\* Everything but the phone number and the provenance (the source tag and the
\* stamps quality assessment derives from it) is the same.
DifferOnlyInPhone(a, b) ==
    /\ a.email # <<>>
    /\ a.phoneNumber # b.phoneNumber
    /\ \A key \in DOMAIN a \ {"phoneNumber", "sources", "dataFreshnessScore",
                               "sourceCredibility"} : a[key] = b[key]

NonNullPhones == {rawLeads[1].phoneNumber, rawLeads[2].phoneNumber} \ {<<>>}

\* C9 as stated: two raw leads with the same email that differ only in phone
\* number come out as exactly one canonical lead whose phoneNumber is the
\* non-null input value and whose sources is the union.
C9_PhoneScenario ==
    (IsPair /\ DifferOnlyInPhone(rawLeads[1], rawLeads[2]))
        => /\ OneRecordWithUnionOfSources
           /\ cleanedLeads[1].phoneNumber \in NonNullPhones

\* C9 amended: two raw leads with the same email that differ only in phone
\* number and carry a company name (or a profile URL), so that their
\* similarity exceeds 85, come out as exactly one canonical lead; its
\* phoneNumber is the first lead's when it has one and the second's otherwise,
\* and its sources is the union.
C9_PhoneScenarioWithCompany ==
    (IsPair /\ DifferOnlyInPhone(rawLeads[1], rawLeads[2])
            /\ (rawLeads[1].companyName # <<>> \/ rawLeads[1].linkedinUrl # <<>>))
        => /\ OneRecordWithUnionOfSources
           /\ cleanedLeads[1].phoneNumber =
                 IF rawLeads[1].phoneNumber # <<>> THEN rawLeads[1].phoneNumber
                 ELSE rawLeads[2].phoneNumber

C9_Witness ==
    /\ IsPair
    /\ DifferOnlyInPhone(rawLeads[1], rawLeads[2])
    /\ rawLeads[1].companyName # <<>>
    /\ rawLeads[1].phoneNumber = <<>>
    /\ rawLeads[1].sources # rawLeads[2].sources
    /\ Len(cleanedLeads) = 1
    /\ cleanedLeads[1].phoneNumber = rawLeads[2].phoneNumber

(***************************************************************************)
(* SimSpec: calculateSimilarity on a pair of leads while one more field of *)
(* the pair is populated so that it matches                                *)
(***************************************************************************)
SimLead(em, last, co, ro, ph, url) ==
    [EmptyLead EXCEPT
        !.firstName = NameAl, !.lastName = last, !.email = em,
        !.companyName = co, !.role = ro, !.phoneNumber = ph,
        !.linkedinUrl = url]

SimPoolOne ==
    {SimLead(em, last, co, ro, ph, url) :
        em \in {<<>>, EmailLower}, last \in {NameLee, NameKim},
        co \in {<<>>, CompanyAcme}, ro \in {<<>>, RoleCto},
        ph \in {<<>>, PhoneOne}, url \in {<<>>, ProfileUrl}}

SimPoolTwo ==
    {SimLead(em, NameLee, co, ro, ph, url) :
        em \in {<<>>, EmailUpper}, co \in {<<>>, CompanyAcme},
        ro \in {<<>>, RoleCto}, ph \in {<<>>, PhoneOneFormatted},
        url \in {<<>>, ProfileUrl}}

\* The fields calculateSimilarity compares beside the name
MatchFields == {"email", "linkedinUrl", "companyName", "role", "phoneNumber"}

\* The values of a field that match value v under the comparison
\* calculateSimilarity applies to that field
MatchingValues(field, v) ==
    CASE field \in {"email", "companyName", "role"} -> {v, ToLowerCase(v)}
      [] field = "phoneNumber" -> {v, CleanPhone(v)}
      [] OTHER -> {v}

RunIdle ==
    /\ pc = "idle"
    /\ rawLeads = <<>>
    /\ cleanedLeads = <<>>
    /\ NoStageResults

SimInit ==
    /\ AsyncIdle
    /\ RunIdle
    /\ lead1 \in SimPoolOne
    /\ lead2 \in SimPoolTwo
    /\ prevScore = calculateSimilarity(lead1, lead2)
    /\ lastField = "none"
    /\ ScoreIdle

\* One of the two leads lacks a field the other one has; it gets a value
\* that matches the other one's.
Populate ==
    \E field \in MatchFields :
        /\ prevScore' = calculateSimilarity(lead1, lead2)
        /\ lastField' = field
        /\ \/ /\ lead1[field] = <<>> /\ lead2[field] # <<>>
              /\ \E v \in MatchingValues(field, lead2[field]) :
                    lead1' = [lead1 EXCEPT ![field] = v]
              /\ UNCHANGED lead2
           \/ /\ lead2[field] = <<>> /\ lead1[field] # <<>>
              /\ \E v \in MatchingValues(field, lead1[field]) :
                    lead2' = [lead2 EXCEPT ![field] = v]
              /\ UNCHANGED lead1
        /\ UNCHANGED <<runVars, scoreVars, limiterVars, dedupVars, contactVars, asyncVars>>

SimNext == Populate

SimSpec == SimInit /\ [][SimNext]_vars

\* C8: populating one more matching field (email, profile URL, company, role,
\* phone) on a pair never lowers calculateSimilarity's score, and the score
\* stays within 0..100.
C8_SimilarityMonotone ==
    /\ calculateSimilarity(lead1, lead2) \in 0..100
    /\ lastField # "none" => calculateSimilarity(lead1, lead2) >= prevScore

\* a matching phone was populated, the score rose and reached the cap
C8_Witness ==
    /\ lastField = "phoneNumber"
    /\ prevScore < 100
    /\ prevScore >= 80
    /\ calculateSimilarity(lead1, lead2) = 100


(***************************************************************************)
(* A research run: properties under Spec                                   *)
(***************************************************************************)
Rating(lead) == OrElse(lead.interestRating, 0)

C4_AtMostTargetCount ==
    (pc = "done" /\ targetCount # Undefined) => Len(finalLeads) <= targetCount

\* C5: for every qualityThreshold the caller passes, the returned list holds
\* no lead rated (0 when missing) below it, and holds every scored lead at or
\* above it up to the cut: it is the leads at or above the threshold, in the
\* prioritized order, cut at the count the run cuts at.
C5_ThresholdFilter ==
    (pc = "done" /\ qualityThreshold # Undefined) =>
        LET AtOrAbove(lead) == Rating(lead) >= qualityThreshold
            passing == SelectSeq(prioritizedLeads, AtOrAbove)
        IN  finalLeads = SubSeq(passing, 1, Min(Len(passing), EffectiveCount(targetCount)))

\* position by position, the later list's sources include the earlier one's
KeepsSources(before, after) ==
    /\ Len(after) = Len(before)
    /\ \A i \in 1..Len(before) :
          /\ after[i].firstName = before[i].firstName
          /\ after[i].lastName = before[i].lastName
          /\ SourceSet(before[i]) \subseteq SourceSet(after[i])

\* the canonical record a raw lead became or was merged into
AbsorbedBy(raw, canonical) ==
    \/ generateLeadId(canonical) = generateLeadId(raw)
    \/ generateLeadId(raw) \in Range(canonical.dataPoints.mergedFrom)

\* C6: every lead has a non-empty sources right after discovery, and right
\* after each later stage (quality assessment and dedup/merge, verification,
\* company enrichment, social analysis, scoring, prioritization) a lead's
\* sources include what they were before that stage.
C6_SourcesNeverShrink ==
    /\ pc = "discovered" => \A i \in 1..Len(rawLeads) : rawLeads[i].sources # <<>>
    /\ pc = "cleaned" =>
          \A i \in 1..Len(rawLeads) : \E j \in 1..Len(cleanedLeads) :
              /\ AbsorbedBy(rawLeads[i], cleanedLeads[j])
              /\ SourceSet(rawLeads[i]) \subseteq SourceSet(cleanedLeads[j])
    /\ pc = "verified" => KeepsSources(cleanedLeads, verifiedLeads)
    /\ pc = "enriched" => KeepsSources(verifiedLeads, enrichedLeads)
    /\ pc = "social" => KeepsSources(enrichedLeads, socialEnrichedLeads)
    /\ pc = "scored" => KeepsSources(socialEnrichedLeads, scoredLeads)
    /\ pc = "prioritized" =>
          \E before \in Perms(socialEnrichedLeads) : KeepsSources(before, prioritizedLeads)

\* a lead merged from two providers went through every stage
C6_Witness ==
    /\ pc = "prioritized"
    /\ Len(prioritizedLeads) >= 2
    /\ \E i \in 1..Len(prioritizedLeads) :
          SourceSet(prioritizedLeads[i]) = {"apollo", "zoominfo"}

\* C10: for a lead without an email for which no synthesized address
\* verifies, verifyContact's verdict has the status "unknown", and the lead
\* is in the result of the verification stage.
C10_NoEmailIsUnknown ==
    pc = "verified" =>
        \A i \in 1..Len(cleanedLeads) :
            cleanedLeads[i].email = <<>> =>
                /\ verifications[i].verificationStatus = "unknown"
                /\ Len(verifiedLeads) = Len(cleanedLeads)
                /\ verifiedLeads[i].firstName = cleanedLeads[i].firstName
                /\ verifiedLeads[i].lastName = cleanedLeads[i].lastName

(***************************************************************************)
(* ScoreSpec: one lead, as providers and the earlier stages can leave it,  *)
(* goes through assessDataQuality and LeadScoringService.scoreLead         *)
(***************************************************************************)
\* a summary of more than 100 characters
LongSummary == [i \in 1..120 |-> "a"]

MissingProfile ==
    [role |-> <<>>, seniority |-> <<>>, companySize |-> <<>>,
     location |-> <<>>, industry |-> <<>>]

\* who the lead is, against the ICP: nothing known, a poor fit, a close fit
DemographicProfiles ==
    {MissingProfile,
     [role |-> <<"I", "n", "t", "e", "r", "n">>, seniority |-> <<"junior">>,
      companySize |-> <<"5", "0", "0", "0", "+", " ", "e", "m", "p", "l", "o", "y", "e", "e", "s">>,
      location |-> <<<<"O", "s", "l", "o">>>>, industry |-> <<<<"R", "e", "t", "a", "i", "l">>>>],
     [role |-> RoleCto, seniority |-> <<"c-level">>,
      companySize |-> <<"1", "-", "1", "0", " ", "e", "m", "p", "l", "o", "y", "e", "e", "s">>,
      location |-> <<<<"A", "u", "s", "t", "i", "n", ",", " ", "T", "X">>>>, industry |-> <<<<"S", "a", "a", "S">>>>]}

\* what the social signals and the company intelligence say about intent
BehavioralProfiles ==
    {[linkedinActivityScore |-> Undefined, contentEngagement |-> Undefined,
      jobChangeSignals |-> <<>>, buyingSignals |-> <<>>,
      painPointIndicators |-> <<>>],
     [linkedinActivityScore |-> 20, contentEngagement |-> 28,
      jobChangeSignals |-> <<FALSE>>, buyingSignals |-> <<<<"T", "r", "i", "a", "l">>>>,
      painPointIndicators |-> <<<<"C", "h", "u", "r", "n">>>>],
     [linkedinActivityScore |-> 100, contentEngagement |-> 100,
      jobChangeSignals |-> <<TRUE>>,
      buyingSignals |-> <<<<"R", "F", "P", " ", "p", "r", "o", "c", "e", "s", "s">>, <<"B", "u", "d", "g", "e", "t", " ", "a", "p", "p", "r", "o", "v", "e", "d">>, <<"C", "o", "n", "t", "r", "a", "c", "t", " ", "r", "e", "n", "e", "w", "a", "l">>>>,
      painPointIndicators |-> <<<<"R", "O", "I">>, <<"S", "c", "a", "l", "e">>, <<"P", "i", "p", "e", "l", "i", "n", "e">>, <<"C", "o", "n", "v", "e", "r", "s", "i", "o", "n">>>>]}

\* the stamps of the providers, of assessDataQuality and of the verification
DataProfiles ==
    {[sources |-> <<>>, emailVerified |-> FALSE,
      emailDeliverabilityScore |-> Undefined, dataFreshnessScore |-> Undefined,
      sourceCredibility |-> Undefined, lastUpdated |-> 200],
     [sources |-> <<"unknown">>, emailVerified |-> FALSE,
      emailDeliverabilityScore |-> 10, dataFreshnessScore |-> 20,
      sourceCredibility |-> 35, lastUpdated |-> 200],
     [sources |-> <<"linkedin", "apollo", "zoominfo">>, emailVerified |-> TRUE,
      emailDeliverabilityScore |-> 100, dataFreshnessScore |-> 100,
      sourceCredibility |-> 100, lastUpdated |-> 0]}

CompanyProfiles ==
    {[companyFunding |-> <<>>, companyGrowthSignals |-> <<>>,
      companyTechStack |-> <<>>, competitorAnalysis |-> <<>>],
     [companyFunding |-> <<"B", "o", "o", "t", "s", "t", "r", "a", "p", "p", "e", "d">>, companyGrowthSignals |-> <<<<"L", "a", "y", "o", "f", "f", "s">>>>,
      companyTechStack |-> <<<<"C", "o", "b", "o", "l">>>>, competitorAnalysis |-> <<"N", "o", "n", "e">>],
     [companyFunding |-> <<"I", "P", "O", " ", "2", "0", "2", "1">>,
      companyGrowthSignals |-> <<<<"F", "u", "n", "d", "i", "n", "g">>, <<"H", "i", "r", "i", "n", "g">>, <<"G", "r", "o", "w", "t", "h">>, <<"E", "x", "p", "a", "n", "s", "i", "o", "n">>>>,
      companyTechStack |->
         <<<<"S", "a", "l", "e", "s", "f", "o", "r", "c", "e">>, <<"H", "u", "b", "S", "p", "o", "t">>, <<"S", "l", "a", "c", "k">>, <<"Z", "o", "o", "m">>, <<"M", "a", "r", "k", "e", "t", "o">>>>,
      competitorAnalysis |-> <<"S", "t", "r", "o", "n", "g", " ", "f", "i", "t">>]}

SocialProfiles ==
    {[linkedinConnections |-> Undefined, recentActivity |-> <<>>,
      socialProfiles |-> <<>>, aboutSummary |-> <<>>],
     [linkedinConnections |-> 100, recentActivity |-> <<<<"L", "i", "k", "e", "d", " ", "a", " ", "p", "o", "s", "t">>>>,
      socialProfiles |-> <<[twitter |-> <<>>, github |-> <<>>]>>,
      aboutSummary |-> <<"H", "i">>],
     [linkedinConnections |-> 5000,
      recentActivity |-> <<<<"K", "e", "y", "n", "o", "t", "e">>, <<"P", "o", "d", "c", "a", "s", "t">>, <<"W", "e", "b", "i", "n", "a", "r">>>>,
      socialProfiles |-> <<[twitter |-> <<"twitter">>, github |-> <<"github">>]>>,
      aboutSummary |-> LongSummary]}

\* the contact data: none, malformed throughout, well-formed throughout
ContactProfiles ==
    {[firstName |-> <<>>, lastName |-> <<>>, email |-> <<>>,
      companyName |-> <<>>, website |-> <<>>, phoneNumber |-> <<>>,
      linkedinUrl |-> <<>>, department |-> <<>>],
     [firstName |-> <<"A">>, lastName |-> <<"B">>, email |-> <<"a", "@", "b">>,
      companyName |-> <<"T", "e", "s", "t">>, website |-> <<"x">>, phoneNumber |-> <<"1", "2">>,
      linkedinUrl |-> <<"http://x/", "z">>, department |-> <<>>],
     [firstName |-> NameAl, lastName |-> NameLee, email |-> EmailLower,
      companyName |-> CompanyAcme, website |-> <<"https://", "y", ".", "c">>,
      phoneNumber |-> <<"5", "5", "5", "-", "0", "1", "0", "-", "0", "1", "9", "9">>,
      linkedinUrl |-> ProfileUrl, department |-> <<"I", "T">>]}

ScoreLead(demographic, behavioral, data, company, social, contact) ==
    [EmptyLead EXCEPT
        !.role = demographic.role, !.seniority = demographic.seniority,
        !.companySize = demographic.companySize,
        !.dataPoints.location = demographic.location,
        !.dataPoints.industry = demographic.industry,
        !.linkedinActivityScore = behavioral.linkedinActivityScore,
        !.contentEngagement = behavioral.contentEngagement,
        !.jobChangeSignals = behavioral.jobChangeSignals,
        !.buyingSignals = behavioral.buyingSignals,
        !.painPointIndicators = behavioral.painPointIndicators,
        !.sources = data.sources, !.emailVerified = data.emailVerified,
        !.emailDeliverabilityScore = data.emailDeliverabilityScore,
        !.dataFreshnessScore = data.dataFreshnessScore,
        !.sourceCredibility = data.sourceCredibility,
        !.lastUpdated = data.lastUpdated,
        !.companyFunding = company.companyFunding,
        !.companyGrowthSignals = company.companyGrowthSignals,
        !.companyTechStack = company.companyTechStack,
        !.competitorAnalysis = company.competitorAnalysis,
        !.linkedinConnections = social.linkedinConnections,
        !.recentActivity = social.recentActivity,
        !.socialProfiles = social.socialProfiles,
        !.aboutSummary = social.aboutSummary,
        !.firstName = contact.firstName, !.lastName = contact.lastName,
        !.email = contact.email, !.companyName = contact.companyName,
        !.website = contact.website, !.phoneNumber = contact.phoneNumber,
        !.linkedinUrl = contact.linkedinUrl, !.department = contact.department]

ScorePool ==
    {ScoreLead(demographic, behavioral, data, company, social, contact) :
        demographic \in DemographicProfiles, behavioral \in BehavioralProfiles,
        data \in DataProfiles, company \in CompanyProfiles,
        social \in SocialProfiles, contact \in ContactProfiles}

\* the ICPs a lead is scored against: nothing specified, the close fit of
\* DemographicProfiles, and a broad one
IcpPool ==
    {EmptyIcp,
     [targetRole |-> <<"c", "t", "o">>, seniority |-> <<"c-level">>,
      companySize |-> <<"1", "-", "1", "0">>, location |-> <<"A", "u", "s", "t", "i", "n", ",", " ", "T", "X">>,
      targetIndustry |-> <<"S", "a", "a", "S">>],
     [targetRole |-> <<"V", "P", ",", " ", "C", "T", "O", ",", " ", "C", "E", "O">>, seniority |-> <<"director">>,
      companySize |-> <<"2", "5", "0", "-", "5", "0", "0">>, location |-> <<"t", "x">>,
      targetIndustry |-> <<"S", "o", "f", "t", "w", "a", "r", "e">>]}

\* Math.floor(Math.random() * 30) + 20
MutualConnections == {20, 49}

ScoreInit ==
    /\ AsyncIdle
    /\ RunIdle
    /\ lead1 \in ScorePool
    /\ lead2 = EmptyLead
    /\ prevScore = 0
    /\ lastField = "none"
    /\ scoreIcp \in IcpPool
    /\ leadMetrics = <<>>
    /\ leadScore = <<>>

\* assessDataQuality(lead): the quality metrics are computed and stamped on
\* the lead
AssessDataQuality ==
    /\ leadMetrics = <<>>
    /\ ~ConsistencyThrows(lead1)
    /\ leadMetrics' = <<calculateQualityMetrics(lead1)>>
    /\ lead1' = assessDataQuality(lead1)
    /\ UNCHANGED <<runVars, lead2, prevScore, lastField, scoreIcp, leadScore,
                   limiterVars, dedupVars, contactVars, asyncVars>>

\* LeadScoringService.scoreLead(lead, icpDetails), the try branch; ratings
\* are kept in tenths
ScoreLeadComposite ==
    /\ lead1.interestRating = Undefined
    /\ \E mutualConnections \in MutualConnections :
          LET factors == calculateScoringFactors(lead1, scoreIcp, mutualConnections)
              score == calculateCompositeScore(factors)
          IN  /\ leadScore' = <<score>>
              /\ lead1' = [lead1 EXCEPT !.interestRating = 10 * score.overallScore]
    /\ UNCHANGED <<runVars, lead2, prevScore, lastField, scoreIcp, leadMetrics,
                   limiterVars, dedupVars, contactVars, asyncVars>>

\* LeadScoringService.scoreLead(lead, icpDetails), the catch branch
ScoreLeadFallback ==
    /\ lead1.interestRating = Undefined
    /\ lead1' = [lead1 EXCEPT !.interestRating = 10 * fallbackScoring(lead1, scoreIcp)]
    /\ UNCHANGED <<runVars, lead2, prevScore, lastField, scoreVars, limiterVars,
                   dedupVars, contactVars, asyncVars>>

ScoreNext == AssessDataQuality \/ ScoreLeadComposite \/ ScoreLeadFallback

ScoreSpec == ScoreInit /\ [][ScoreNext]_vars

\* C7: the overallQuality of calculateQualityMetrics, the overallScore and
\* the confidence of calculateCompositeScore, and the interestRating that
\* scoreLead stores (the composite score or the fallback score) are each
\* within 0..100, whatever the providers and the earlier stages supplied.
C7_ScoresWithinRange ==
    /\ leadMetrics # <<>> => leadMetrics[1].overallQuality \in 0..100
    /\ leadScore # <<>> =>
          /\ leadScore[1].overallScore \in 0..100
          /\ leadScore[1].confidence \in 0..100
    /\ lead1.interestRating # Undefined => lead1.interestRating \in 0..1000

\* a lead with metrics and a composite score whose confidence came out at
\* the cap
C7_Witness ==
    /\ leadMetrics # <<>>
    /\ leadScore # <<>>
    /\ RoundedConfidence(leadScore[1].factors) > 100
    /\ leadScore[1].confidence = 100
    /\ lead1.interestRating = 10 * leadScore[1].overallScore

(***************************************************************************)
(* VerifyScoreSpec: a lead without an email goes through the task of       *)
(* verifyContactInformation and is then scored by                          *)
(* LeadScoringService.scoreLead                                            *)
(***************************************************************************)
\* a lead as the source adapters deliver it without an email
NoEmailLead(lead) ==
    [lead EXCEPT !.email = <<>>, !.emailVerified = FALSE,
                 !.emailDeliverabilityScore = Undefined]

NoEmailPool ==
    {NoEmailLead(lead) :
        lead \in {l \in ScorePool : l.linkedinConnections = Undefined
                                      /\ l.companyFunding = <<>>}}

VerifyScoreInit ==
    /\ AsyncIdle
    /\ RunIdle
    /\ lead1 \in NoEmailPool
    /\ lead2 = EmptyLead
    /\ prevScore = 0
    /\ lastField = "none"
    /\ scoreIcp \in IcpPool
    /\ leadMetrics = <<>>
    /\ leadScore = <<>>

\* the task of verifyContactInformation for the lead
VerifyLeadContact ==
    /\ verifications = <<>>
    /\ leadScore = <<>>
    /\ \E env \in VerificationEnvs :
        /\ verifications' = <<verifyContact(lead1, env)>>
        /\ lead1' = verifyLead(lead1, env)
    /\ UNCHANGED <<pc, settled, rawLeads, cleanedLeads, verifiedLeads,
                   enrichedLeads, socialEnrichedLeads, scoredLeads,
                   prioritizedLeads, finalLeads, paramVars, lead2, prevScore,
                   lastField, scoreVars, limiterVars,
                   dedupVars, contactVars, asyncVars>>

\* LeadScoringService.scoreLead on the verified lead
ScoreVerifiedLead ==
    /\ verifications # <<>>
    /\ ScoreLeadComposite

VerifyScoreNext == VerifyLeadContact \/ ScoreVerifiedLead

VerifyScoreSpec == VerifyScoreInit /\ [][VerifyScoreNext]_vars

\* C11: when the verification of a lead without an email found no usable
\* address (the verdict 'No email found', deliverabilityScore 0), the
\* emailVerification factor of calculateScoringFactors is the default 60 of
\* `lead.emailDeliverabilityScore || 60`, not 0.
C11_NeutralDeliverabilityFactor ==
    (/\ verifications # <<>>
     /\ verifications[1] = NoEmailFound
     /\ leadScore # <<>>)
    => /\ leadScore[1].factors.emailVerification = 60
       /\ leadScore[1].factors.emailVerification # 0

\* a lead with a name and a company whose synthesized addresses all failed,
\* kept with the score 0 and scored
C11_Witness ==
    /\ verifications # <<>>
    /\ verifications[1] = NoEmailFound
    /\ lead1.firstName # <<>> /\ lead1.companyName # <<>>
    /\ lead1.email = <<>>
    /\ lead1.emailDeliverabilityScore = 0
    /\ leadScore # <<>>
    /\ leadScore[1].factors.emailVerification = 60

(***************************************************************************)
(* Discovery under failing adapters: properties under Spec                 *)
(***************************************************************************)
\* the adapter failed: its search threw inside searchLeads and came back as
\* [], or its job was rejected
AdapterFailed(result) == result.status = "rejected" \/ result.value = <<>>

\* the candidates of adapter i when it succeeded, nothing when it failed
CandidatesOf(result) == IF AdapterFailed(result) THEN <<>> ELSE result.value

\* C12: whichever of the three searches fail, discovery completes with
\* exactly the candidates of the searches that succeeded, in the order
\* linkedin, apollo, zoominfo, and the run is past its first step.
C12_DiscoverySurvivesFailures ==
    settled # <<>> =>
        /\ rawLeads = CandidatesOf(settled[1]) \o CandidatesOf(settled[2])
                          \o CandidatesOf(settled[3])
        /\ pc # "start"

\* a run past deduplication in which one search was rejected, one returned
\* [] and one delivered a candidate
C12_Witness ==
    /\ settled # <<>>
    /\ settled[1].status = "rejected"
    /\ settled[2] = Fulfilled(<<>>)
    /\ ~AdapterFailed(settled[3])
    /\ Len(rawLeads) = 1
    /\ pc = "done"

(***************************************************************************)
(* LimiterSpec: the jobs of a research run in the rate limiter             *)
(* (new Bottleneck({maxConcurrent: 3, minTime: 2000})).  Every stage maps  *)
(* its tasks to rateLimiter.schedule and awaits them all; the limiter runs *)
(* at most maxConcurrent jobs at a time, in the order they were queued.    *)
(* A running job has its calls to the outside in flight; when the last one *)
(* returns the job settles, with its result or with the value of its catch *)
(* branch.  When the await of a stage resolves, the values of its settled  *)
(* jobs are collected into the array the next stage maps over.  minTime    *)
(* only spaces the launches out and is not modelled.                       *)
(***************************************************************************)
\* RESEARCH_CONFIG.maxConcurrentRequests
maxConcurrentRequests == 3

\* the stages of conductAdvancedResearch that go through the limiter
StageOrder == <<"discovery", "verification", "enrichment", "social", "scoring">>

StageIndex(st) == CHOOSE k \in 1..Len(StageOrder) : StageOrder[k] = st

\* discoveryTasks holds the three searches, the other stages leads.map(...)
TasksOf(st) == IF st = "discovery" THEN 3 ELSE NumLeads

\* the addresses generatePotentialEmails tries for a lead without an email
PatternCount == Len(EmailPatterns(<<"a">>, <<"l">>, <<"y", ".", "c">>))

\* verifyContact on an address: resolveMx and the external provider are
\* awaited together (Promise.allSettled)
CallsPerAddress == 2

\* the calls a job has in flight once it runs
CallsOf(st, i) ==
    IF st = "verification"
    THEN IF hasEmail[i] THEN CallsPerAddress ELSE PatternCount * CallsPerAddress
    ELSE 1

Settlements == {"fulfilled", "fallback"}

Running(st) == {i \in 1..TasksOf(st) : jobs[st][i] = "running"}

TotalInFlight ==
    LET RECURSIVE Sum(_)
        Sum(i) == IF i = 0 THEN 0 ELSE inFlight[i] + Sum(i - 1)
    IN  Sum(Len(inFlight))

\* A wait that ends with the first job that settles.
AnySettled(st) == \E i \in 1..TasksOf(st) : jobs[st][i] \in Settlements

\* await Promise.all(tasks) / Promise.allSettled(discoveryTasks)
AllSettled(st) == \A i \in 1..TasksOf(st) : jobs[st][i] \in Settlements

\* the leads of a run: the LinkedIn profiles come first and carry no email
LeadKinds == {[i \in 1..NumLeads |-> i > k] : k \in 0..1}

LimiterInit ==
    /\ AsyncIdle
    /\ pc = "idle"
    /\ rawLeads = <<>>
    /\ cleanedLeads = <<>>
    /\ NoRunResults
    /\ DedupLoopIdle
    /\ ContactIdle
    /\ SimIdle
    /\ stage = "discovery"
    /\ jobs = [st \in Range(StageOrder) |->
                  [i \in 1..TasksOf(st) |->
                      IF st = "discovery" THEN "queued" ELSE "unscheduled"]]
    /\ inFlight = [i \in 1..TasksOf("discovery") |-> 0]
    /\ hasEmail \in LeadKinds
    /\ cancelRequested = FALSE

\* Bottleneck starts the oldest queued job when fewer than maxConcurrent are
\* running; the job issues its calls
Launch ==
    /\ stage \in Range(StageOrder)
    /\ Cardinality(Running(stage)) < maxConcurrentRequests
    /\ \E i \in 1..TasksOf(stage) :
        /\ jobs[stage][i] = "queued"
        /\ \A j \in 1..(i - 1) : jobs[stage][j] # "queued"
        /\ jobs' = [jobs EXCEPT ![stage][i] = "running"]
        /\ inFlight' = [inFlight EXCEPT ![i] = CallsOf(stage, i)]
    /\ UNCHANGED <<runVars, lead1, lead2, prevScore, lastField, scoreVars,
                   stage, hasEmail, cancelRequested,
                   dedupVars, contactVars, asyncVars>>

\* a call of a running job returns; with the last one the job settles
CallReturns ==
    /\ stage \in Range(StageOrder)
    /\ \E i \in Running(stage) :
        /\ inFlight[i] > 0
        /\ inFlight' = [inFlight EXCEPT ![i] = inFlight[i] - 1]
        /\ IF inFlight[i] = 1
           THEN \E result \in Settlements :
                    jobs' = [jobs EXCEPT ![stage][i] = result]
           ELSE UNCHANGED jobs
    /\ UNCHANGED <<runVars, lead1, lead2, prevScore, lastField, scoreVars,
                   stage, hasEmail, cancelRequested,
                   dedupVars, contactVars, asyncVars>>

\* the values of the settled jobs of a stage, taken into its result array
Collected(stageJobs) ==
    [i \in 1..Len(stageJobs) |->
        IF stageJobs[i] \in Settlements THEN "collected" ELSE stageJobs[i]]

\* the await of the stage resolves: the next stage schedules its tasks, or
\* the run returns after the scoring stage
NextStage ==
    /\ stage \in Range(StageOrder)
    /\ AllSettled(stage)
    /\ IF stage = "scoring"
       THEN /\ stage' = "returned"
            /\ jobs' = [jobs EXCEPT ![stage] = Collected(jobs[stage])]
            /\ UNCHANGED inFlight
       ELSE LET following == StageOrder[StageIndex(stage) + 1]
            IN  /\ stage' = following
                /\ jobs' = [jobs EXCEPT
                                ![stage] = Collected(jobs[stage]),
                                ![following] =
                                    [i \in 1..TasksOf(following) |-> "queued"]]
                /\ inFlight' = [i \in 1..TasksOf(following) |-> 0]
    /\ UNCHANGED <<runVars, lead1, lead2, prevScore, lastField, scoreVars,
                   hasEmail, cancelRequested, dedupVars,
                   contactVars, asyncVars>>

\* the caller wants the run to stop; AdvancedLeadResearchParams has no
\* field that could carry the request into the run
Cancel ==
    /\ stage \in Range(StageOrder)
    /\ ~cancelRequested
    /\ cancelRequested' = TRUE
    /\ UNCHANGED <<runVars, lead1, lead2, prevScore, lastField, scoreVars,
                   stage, jobs, inFlight, hasEmail,
                   dedupVars, contactVars, asyncVars>>

LimiterNext == Launch \/ CallReturns \/ NextStage \/ Cancel

LimiterSpec == LimiterInit /\ [][LimiterNext]_vars

\* C13: a job of a stage is scheduled only when every job of the stage
\* before it has settled, with its result or with its fallback; the stages
\* follow each other in the order of StageOrder.
C13_StagesAreBarriers ==
    stage # "idle" =>
        \A k \in 1..(Len(StageOrder) - 1) :
            (\E i \in 1..TasksOf(StageOrder[k + 1]) :
                jobs[StageOrder[k + 1]][i] # "unscheduled")
            => \A j \in 1..TasksOf(StageOrder[k]) :
                  jobs[StageOrder[k]][j] \in {"fulfilled", "fallback", "collected"}

\* company enrichment is under way after the verification stage: one job
\* has settled with its result, one with its fallback, one is running and
\* one is still queued
C13_Witness ==
    /\ stage = "enrichment"
    /\ \A i \in 1..NumLeads : jobs["verification"][i] = "collected"
    /\ \E i, j, k, l \in 1..NumLeads :
          /\ jobs["enrichment"][i] = "fulfilled"
          /\ jobs["enrichment"][j] = "fallback"
          /\ jobs["enrichment"][k] = "running"
          /\ jobs["enrichment"][l] = "queued"

\* C14: at most maxConcurrentRequests calls to the outside are in flight,
\* the calls of one verification job included.
C14_AtMostThreeCallsInFlight ==
    stage # "idle" => TotalInFlight <= maxConcurrentRequests

\* C17: once the caller has asked for the run to stop, no job is launched
\* (no further call goes out) and the run does not return leads.
C17_CancellationStopsRun ==
    [][cancelRequested => (TotalInFlight' <= TotalInFlight /\ stage' # "returned")]_vars

(***************************************************************************)
(* Failures of single leads in the per-lead stages: properties under Spec  *)
(***************************************************************************)
PastVerification == {"verified", "enriched", "social", "scored", "prioritized", "done"}

PastEnrichment == PastVerification \ {"verified"}

PastSocial == PastEnrichment \ {"enriched"}

\* gatherIntelligence throws for this lead
IntelligenceFails(lead) == lead.companyName = <<>> /\ lead.website = <<>>

\* the lead carries the company intelligence and is otherwise who it was
HasIntelligence(before, after) ==
    /\ after.companySize = MockIntelligence.size
    /\ after.companyFunding = MockIntelligence.funding
    /\ after.buyingSignals = MockIntelligence.buyingSignals
    /\ \A key \in {"firstName", "lastName", "email", "companyName", "sources",
                    "phoneNumber", "emailVerified"} : after[key] = before[key]

\* C15: every per-lead stage hands on as many leads as it was given, each
\* in its place.  A lead whose task failed (gatherIntelligence threw, the
\* analysis threw) is handed on as it was, with the rating 6.5 in the
\* scoring stage; every other lead of the stage carries the result of its
\* own task.
C15_ItemFailuresStayLocal ==
    /\ pc \in PastVerification =>
          /\ Len(verifiedLeads) = Len(cleanedLeads)
          /\ \A i \in 1..Len(cleanedLeads) :
                verifiedLeads[i] = WithVerification(cleanedLeads[i], verifications[i])
    /\ pc \in PastEnrichment =>
          /\ Len(enrichedLeads) = Len(verifiedLeads)
          /\ \A i \in 1..Len(verifiedLeads) :
                IF IntelligenceFails(verifiedLeads[i])
                THEN enrichedLeads[i] = verifiedLeads[i]
                ELSE HasIntelligence(verifiedLeads[i], enrichedLeads[i])
    /\ pc \in PastSocial =>
          /\ Len(socialEnrichedLeads) = Len(enrichedLeads)
          /\ \A i \in 1..Len(enrichedLeads) :
                \E outcome \in SocialOutcomes :
                    socialEnrichedLeads[i] = socialLead(enrichedLeads[i], outcome)
    /\ pc = "scored" =>
          /\ Len(scoredLeads) = Len(socialEnrichedLeads)
          /\ \A i \in 1..Len(scoredLeads) :
                \/ scoredLeads[i] = [socialEnrichedLeads[i] EXCEPT !.interestRating = 65]
                \/ \E outcome \in ScoringOutcomes :
                      /\ outcome.kind # "throws"
                      /\ scoredLeads[i] = scoreLead(socialEnrichedLeads[i], outcome)

\* two leads after scoring: the enrichment of one failed and the other one
\* carries the intelligence, the analysis of one threw and the other one
\* has the model's rating
C15_Witness ==
    /\ pc = "scored"
    /\ \E i, j \in 1..Len(scoredLeads) :
          /\ IntelligenceFails(verifiedLeads[i])
          /\ enrichedLeads[i] = verifiedLeads[i]
          /\ HasIntelligence(verifiedLeads[j], enrichedLeads[j])
    /\ \E i, j \in 1..Len(scoredLeads) :
          /\ scoredLeads[i] = [socialEnrichedLeads[i] EXCEPT !.interestRating = 65]
          /\ scoredLeads[j].interestRating = 720
          /\ scoredLeads[j].aboutSummary = <<"Strong fit">>

(***************************************************************************)
(* Outcome of a run: properties under Spec                                 *)
(***************************************************************************)
\* C16: no error of a single lead, in any stage, makes
\* conductAdvancedResearch fail: a run never ends rejected.
C16_RunNeverFails == pc # "failed"

(***************************************************************************)
(* Populated fields across the per-lead stages: properties under Spec      *)
(***************************************************************************)
LeadKeys == DOMAIN EmptyLead \ {"emailVerified", "dataPoints"}

\* the field holds a value
Populated(lead, key) ==
    IF key \in NumberFields THEN lead[key] # Undefined ELSE lead[key] # <<>>

\* every field that holds a value in a lead of before holds one in the lead
\* at the same place of after
KeepsPopulated(before, after) ==
    \A i \in 1..Len(before) : \A key \in LeadKeys :
        Populated(before[i], key) => Populated(after[i], key)

\* C19: no stage after discovery deletes a populated field: a field that
\* holds a value when a lead enters verification, enrichment, social
\* analysis or scoring (phoneNumber before verification, companySize before
\* enrichment) holds one when the lead leaves the stage.
C19_StagesKeepPopulatedFields ==
    /\ pc \in PastVerification => KeepsPopulated(cleanedLeads, verifiedLeads)
    /\ pc \in PastEnrichment => KeepsPopulated(verifiedLeads, enrichedLeads)
    /\ pc \in PastSocial => KeepsPopulated(enrichedLeads, socialEnrichedLeads)
    /\ pc = "scored" => KeepsPopulated(socialEnrichedLeads, scoredLeads)

(***************************************************************************)
(* DedupLoopSpec: the loop of deduplicateLeads, one lead at a time.  Every *)
(* lead either is accepted as a new record or is merged into the record    *)
(* findIndex returns.                                                      *)
(***************************************************************************)
\* Contacts of one person as the providers deliver them: the email in two
\* spellings, with and without company and phone, and the LinkedIn profile
LoopPool ==
    {Candidate("apollo", EmailUpper, NameLee, co, ph, <<>>) :
        co \in {<<>>, CompanyAcme}, ph \in {<<>>, PhoneOne}}
    \cup {Candidate("zoominfo", EmailLower, NameLee, co, ph, <<>>) :
            co \in {<<>>, CompanyAcme}, ph \in {<<>>, PhoneOne}}
    \cup {Candidate("linkedin", <<>>, NameLee, CompanyAcme, <<>>, ProfileUrl)}

DedupLoopInit ==
    /\ AsyncIdle
    /\ pc = "idle"
    /\ rawLeads = <<>>
    /\ cleanedLeads = <<>>
    /\ LimiterIdle
    /\ NoRunResults
    /\ SimIdle
    /\ ContactIdle
    /\ qualityAssessedList \in
          {qualityAssessedLeads(leads) : leads \in [1..LoopLeads -> LoopPool]}
    /\ uniqueLeads = <<>>
    /\ leadIndex = 0

\* the lead of this iteration and its duplicate analysis
LoopLead == qualityAssessedList[leadIndex + 1]

LoopAnalysis == analyzeDuplicates(LoopLead, uniqueLeads)

\* an iteration whose lead is no duplicate: uniqueLeads.push(...)
AcceptLead ==
    /\ leadIndex < Len(qualityAssessedList)
    /\ ~LoopAnalysis.isDuplicate
    /\ uniqueLeads' = DedupWith(uniqueLeads, LoopLead, LoopAnalysis)
    /\ leadIndex' = leadIndex + 1
    /\ UNCHANGED <<runVars, simVars, qualityAssessedList, contactVars, asyncVars>>

\* an iteration whose lead is a duplicate: findIndex and mergeLeads
MergeLead ==
    /\ leadIndex < Len(qualityAssessedList)
    /\ LoopAnalysis.isDuplicate
    /\ uniqueLeads' = DedupWith(uniqueLeads, LoopLead, LoopAnalysis)
    /\ leadIndex' = leadIndex + 1
    /\ UNCHANGED <<runVars, simVars, qualityAssessedList, contactVars, asyncVars>>

DedupLoopNext == AcceptLead \/ MergeLead

DedupLoopSpec == DedupLoopInit /\ [][DedupLoopNext]_vars

\* the fields of a record the merge is to keep as they are; the sources are
\* unioned and the two quality scores are combined with max
KeptFields ==
    DOMAIN EmptyLead \ {"sources", "dataPoints", "dataFreshnessScore",
                        "sourceCredibility"}

KeptDataPoints == DOMAIN EmptyLead.dataPoints \ {"mergedFrom"}

\* after holds every value that is populated in before
HoldsValuesOf(before, after) ==
    /\ \A key \in KeptFields :
          isFieldComplete(before, key) => after[key] = before[key]
    /\ \A key \in KeptDataPoints :
          before.dataPoints[key] # <<>> =>
              after.dataPoints[key] = before.dataPoints[key]
    /\ Range(before.sources) \subseteq Range(after.sources)

\* C18: merging never loses a populated value: every field of an accepted
\* record that was non-empty before mergeLeads, the entries of dataPoints
\* (quality metrics, duplicate analysis) included, has the same value in
\* the record after the merge.
C18_MergeKeepsPopulatedValues ==
    [][\A k \in 1..Len(uniqueLeads) : HoldsValuesOf(uniqueLeads[k], uniqueLeads'[k])]_vars

\* the similarity of the lead of this iteration to the accepted record k
LoopSimilarity(k) == calculateSimilarity(LoopLead, uniqueLeads[k])

\* C20: a lead that exceeds the merge threshold is merged into the accepted
\* record it is most similar to: a record the iteration changes has the
\* highest similarity score of all accepted records.
C20_MergesIntoBestMatch ==
    [][\A k \in 1..Len(uniqueLeads) :
          uniqueLeads'[k] # uniqueLeads[k] =>
              \A other \in 1..Len(uniqueLeads) : LoopSimilarity(k) >= LoopSimilarity(other)]_vars

\* the highest similarity of the lead of this iteration to an accepted record
HighestSimilarity ==
    IF uniqueLeads = <<>> THEN 0
    ELSE LET all == {LoopSimilarity(k) : k \in 1..Len(uniqueLeads)}
         IN  CHOOSE v \in all : \A w \in all : v >= w

\* the ids of the first n accepted records the lead scores above 70 against
RECURSIVE SimilarIds(_)
SimilarIds(n) ==
    IF n = 0 THEN <<>>
    ELSE IF LoopSimilarity(n) > 70
         THEN Append(SimilarIds(n - 1), generateLeadId(uniqueLeads[n]))
         ELSE SimilarIds(n - 1)

\* the iteration absorbed its lead into an accepted record
Absorbed ==
    /\ Len(uniqueLeads') = Len(uniqueLeads)
    /\ \E k \in 1..Len(uniqueLeads) :
          uniqueLeads'[k].dataPoints.mergedFrom =
              Append(uniqueLeads[k].dataPoints.mergedFrom, generateLeadId(LoopLead))

\* the iteration kept its lead as a record of its own, with the similar
\* records listed in its duplicate analysis
KeptSeparate ==
    /\ Len(uniqueLeads') = Len(uniqueLeads) + 1
    /\ \A k \in 1..Len(uniqueLeads) : uniqueLeads'[k] = uniqueLeads[k]
    /\ LET kept == uniqueLeads'[Len(uniqueLeads')]
       IN  /\ generateLeadId(kept) = generateLeadId(LoopLead)
           /\ kept.dataPoints.mergedFrom = <<>>
           /\ kept.dataPoints.duplicateAnalysis[1].similarLeads
                 = SimilarIds(Len(uniqueLeads))

\* C21: a lead is merged if and only if its highest similarity to the
\* accepted records is strictly above 85; otherwise (a highest score in
\* (70, 85] included) it is kept as a separate record whose duplicate
\* analysis lists the records it scored above 70 against.
C21_MergeIffAbove85 ==
    [][leadIndex' = leadIndex + 1 =>
          /\ Absorbed <=> HighestSimilarity > 85
          /\ HighestSimilarity <= 85 => KeptSeparate]_vars

\* a record kept separately with a highest score in (70, 85] and a similar
\* record listed, next to a record that absorbed a lead
C21_Witness ==
    \E i, j \in 1..Len(uniqueLeads) :
        /\ uniqueLeads[i].dataPoints.mergedFrom # <<>>
        /\ uniqueLeads[j].duplicateRisk \in 71..85
        /\ uniqueLeads[j].dataPoints.duplicateAnalysis[1].similarLeads # <<>>
        /\ uniqueLeads[j].dataPoints.mergedFrom = <<>>

(***************************************************************************)
(* ContactSpec: verifyContact on a lead that has an email.  The four       *)
(* layers are awaited together; externalVerification goes through its      *)
(* providers one call at a time, and combineVerificationResults runs when   *)
(* it has returned.                                                        *)
(***************************************************************************)
\* Leads with an email: a business address with and without a company, an
\* address without '@', one without a dot in the domain, and the contact
\* whose address has no '@' next to a website
ContactPool ==
    {Candidate("zoominfo", EmailLower, NameLee, co, <<>>, <<>>) :
        co \in {<<>>, CompanyAcme}}
    \cup {Candidate("zoominfo", em, NameLee, CompanyAcme, <<>>, <<>>) :
            em \in {<<"a", "l">>, <<"a", "@", "y">>}}
    \cup {MalformedContact}

ContactInit ==
    /\ AsyncIdle
    /\ pc = "idle"
    /\ rawLeads = <<>>
    /\ cleanedLeads = <<>>
    /\ LimiterIdle
    /\ NoRunResults
    /\ DedupLoopIdle
    /\ lead1 \in ContactPool
    /\ lead2 = EmptyLead
    /\ prevScore = 0
    /\ lastField = "none"
    /\ ScoreIdle
    /\ dnsAnswer \in DnsOutcomes
    /\ providerAnswers \in [hunter : HunterAnswers, zerobounce : ZeroBounceAnswers,
                            neverbounce : NeverBounceAnswers]
    /\ called = <<>>
    /\ externalResult = <<>>
    /\ verdict = <<>>

\* externalVerification, one iteration of the loop: the next service is
\* called; a result with a status other than 'unknown' is returned
CallService ==
    /\ externalResult = <<>>
    /\ Len(called) < Len(services)
    /\ LET name == services[Len(called) + 1]
       IN  /\ called' = Append(called, name)
           /\ externalResult' =
                 IF ServiceResult(name, providerAnswers).verificationStatus # "unknown"
                 THEN <<ServiceResult(name, providerAnswers)>>
                 ELSE <<>>
    /\ UNCHANGED <<runVars, simVars, dedupVars, dnsAnswer, providerAnswers, verdict,
                   asyncVars>>

\* externalVerification after the loop: 'External verification unavailable'
ExternalUnavailable ==
    /\ externalResult = <<>>
    /\ Len(called) = Len(services)
    /\ externalResult' = <<UnknownResult>>
    /\ UNCHANGED <<runVars, simVars, dedupVars, dnsAnswer, providerAnswers, called,
                   verdict, asyncVars>>

\* the layers of lead1
BasicLayer == basicEmailValidation(lead1.email)

DnsLayer == dnsVerification(lead1.email, [dns |-> dnsAnswer, external |-> "unknown"])

SocialLayer == socialVerification(lead1)

\* verifyContact: the four layers have settled, the results are combined
CombineResults ==
    /\ externalResult # <<>>
    /\ verdict = <<>>
    /\ verdict' = <<combineVerificationResults(lead1.email, BasicLayer, DnsLayer,
                                               externalResult[1], SocialLayer)>>
    /\ UNCHANGED <<runVars, simVars, dedupVars, dnsAnswer, providerAnswers, called,
                   externalResult, asyncVars>>

ContactNext == CallService \/ ExternalUnavailable \/ CombineResults

ContactSpec == ContactInit /\ [][ContactNext]_vars

\* the weighted score combineVerificationResults computed, before rounding
CombinedScore == WeightedScore(BasicLayer, DnsLayer, externalResult[1], SocialLayer)

\* the statuses the stated rule admits for the external layer's status and
\* the weighted score (a provider's own "risky" is admitted as well); the
\* format and DNS layers always produce a signal
RuleStatuses ==
    LET external == externalResult[1].verificationStatus
        asValid == external = "valid" \/ CombinedScore[1] > 70 * CombinedScore[2]
        asInvalid == external = "invalid" \/ CombinedScore[1] < 30 * CombinedScore[2]
    IN  (IF asValid THEN {"valid"} ELSE {})
        \cup (IF asInvalid THEN {"invalid"} ELSE {})
        \cup (IF external = "risky" \/ (~asValid /\ ~asInvalid) THEN {"risky"} ELSE {})

\* C22: for every combination of layer results the final status is "valid"
\* if the external layer says valid or the weighted score is above 70,
\* "invalid" if the external layer says invalid or the score is below 30,
\* and "risky" otherwise; "unknown" only when no layer produced a signal.
C22_StatusFollowsRule ==
    verdict # <<>> => verdict[1].verificationStatus \in RuleStatuses

\* C23: the providers are consulted in the order Hunter, ZeroBounce,
\* NeverBounce; a provider is called only after every provider before it
\* returned 'unknown' or failed; the result is that of the first provider
\* with another status, after which none is called; and the result is
\* 'unknown' exactly when all three returned 'unknown' or failed.
C23_ProvidersInOrder ==
    /\ called = SubSeq(<<"hunter", "zerobounce", "neverbounce">>, 1, Len(called))
    /\ \A k \in 1..(Len(called) - 1) :
          ServiceResult(called[k], providerAnswers).verificationStatus = "unknown"
    /\ externalResult # <<>> =>
          /\ called # <<>>
          /\ IF externalResult[1].verificationStatus # "unknown"
             THEN externalResult[1] = ServiceResult(called[Len(called)], providerAnswers)
             ELSE Len(called) = 3
          /\ externalResult[1].verificationStatus = "unknown" <=>
                \A name \in {"hunter", "zerobounce", "neverbounce"} :
                    ServiceResult(name, providerAnswers).verificationStatus = "unknown"

\* Hunter's request failed, ZeroBounce answered catch-all and its result was
\* returned without a call to NeverBounce, which would have said valid
C23_Witness ==
    /\ verdict # <<>>
    /\ called = <<"hunter", "zerobounce">>
    /\ providerAnswers.hunter.kind = "error"
    /\ externalResult[1].verificationStatus = "risky"
    /\ providerAnswers.neverbounce.status = "valid"

\* the weighted average over the layers that produced a result, as
\* <<numerator, denominator>>: format and DNS always do, the external layer
\* when a provider had a definitive status, the cross-reference unless it threw
AverageOverResults ==
    LET hasExternal == externalResult[1].deliverabilityScore # Undefined
        hasSocial == SocialLayer # <<>>
    IN  <<3 * BasicLayer.deliverabilityScore + 3 * DnsLayer.deliverabilityScore
            + (IF hasExternal THEN 3 * externalResult[1].deliverabilityScore ELSE 0)
            + (IF hasSocial THEN SocialLayer[1].deliverabilityScore ELSE 0),
          6 + (IF hasExternal THEN 3 ELSE 0) + (IF hasSocial THEN 1 ELSE 0)>>

\* C24: the final deliverability score is the weighted average (format 0.3,
\* DNS 0.3, external 0.3, cross-reference 0.1) of every layer that produced
\* a result, a result with the score 0 included, and lies within 0..100.
C24_ScoreIsWeightedAverage ==
    verdict # <<>> =>
        /\ verdict[1].deliverabilityScore
              = RoundDiv(AverageOverResults[1], AverageOverResults[2])
        /\ verdict[1].deliverabilityScore \in 0..100

(***************************************************************************)
(* PrioritizeSpec: prioritizeLeads on a list of scored leads               *)
(***************************************************************************)
\* a scored lead: its rating (in tenths), its LinkedIn activity and its
\* data freshness
ScoredLead(rating, activity, freshness) ==
    [EmptyLead EXCEPT
        !.firstName = NameAl, !.lastName = NameLee,
        !.interestRating = rating, !.linkedinActivityScore = activity,
        !.contentEngagement = 0, !.dataFreshnessScore = freshness,
        !.sourceCredibility = 90]

\* ratings 2.0, 6.0 and 10.0 with activities 0, 20 and 40, and two leads
\* rated 6.0 that differ from those in freshness alone
SortPool ==
    {ScoredLead(rating, activity, 80) :
        rating \in {20, 60, 100}, activity \in {0, 20, 40}}
    \cup {ScoredLead(60, activity, 95) : activity \in {20, 25}}

PrioritizeInit ==
    /\ AsyncIdle
    /\ pc = "scored"
    /\ settled = <<>>
    /\ rawLeads = <<>>
    /\ cleanedLeads = <<>>
    /\ verifications = <<>>
    /\ verifiedLeads = <<>>
    /\ enrichedLeads = <<>>
    /\ socialEnrichedLeads = <<>>
    /\ scoredLeads \in [1..SortLeads -> SortPool]
    /\ prioritizedLeads = <<>>
    /\ finalLeads = <<>>
    /\ targetCount = Undefined
    /\ qualityThreshold = Undefined
    /\ LimiterIdle
    /\ DedupLoopIdle
    /\ ContactIdle
    /\ SimIdle

PrioritizeNext == PrioritizeLeads

PrioritizeSpec == PrioritizeInit /\ [][PrioritizeNext]_vars

Behavioral(lead) == OrElse(lead.linkedinActivityScore, 0) + OrElse(lead.contentEngagement, 0)

DataQuality(lead) == OrElse(lead.dataFreshnessScore, 0) + OrElse(lead.sourceCredibility, 0)

\* the stated rule puts a no later than b
RuleAllows(a, b) ==
    IF Abs(Rating(a) - Rating(b)) > 50 THEN Rating(a) > Rating(b)
    ELSE IF Abs(Behavioral(a) - Behavioral(b)) > 10 THEN Behavioral(a) > Behavioral(b)
    ELSE DataQuality(a) >= DataQuality(b)

\* C25: the prioritized list orders any two of its leads by the rule:
\* by rating descending when the ratings differ by more than 5, else by
\* behavioral signals descending when those differ by more than 10, else
\* by data quality descending; the pairwise order being consistent, this
\* fixes the output whatever the input order.
C25_PairwiseRuleOrdersOutput ==
    pc = "prioritized" =>
        \A i, j \in 1..Len(prioritizedLeads) :
            i < j => RuleAllows(prioritizedLeads[i], prioritizedLeads[j])

(***************************************************************************)
(* Lineage of the merges: properties under DedupLoopSpec                   *)
(***************************************************************************)
\* the total length of the mergedFrom lists of the first n accepted records
RECURSIVE LineageLength(_)
LineageLength(n) ==
    IF n = 0 THEN 0
    ELSE LineageLength(n - 1) + Len(uniqueLeads[n].dataPoints.mergedFrom)

\* C26: deduplication conserves candidates: after every iteration, and so
\* when deduplicateLeads returns, the number of accepted records plus the
\* total length of their mergedFrom lists is the number of leads gone
\* through, and every mergedFrom entry is the id of one of those leads.
C26_CandidatesConserved ==
    /\ Len(uniqueLeads) + LineageLength(Len(uniqueLeads)) = leadIndex
    /\ \A k \in 1..Len(uniqueLeads) :
          \A id \in Range(uniqueLeads[k].dataPoints.mergedFrom) :
              \E i \in 1..leadIndex : id = generateLeadId(qualityAssessedList[i])

\* the loop is through: one record absorbed a lead, and the records and
\* the absorbed leads add up to the input
C26_Witness ==
    /\ leadIndex = Len(qualityAssessedList)
    /\ Len(uniqueLeads) = 2
    /\ LineageLength(Len(uniqueLeads)) = leadIndex - 2
    /\ leadIndex > 2

(***************************************************************************)
(* Quality metrics of the returned records: properties under DedupSpec     *)
(***************************************************************************)
\* the metrics attached to the record are the quality formulas applied to
\* the record as it is returned
MetricsMatchRecord(lead) ==
    /\ lead.dataPoints.qualityMetrics # <<>>
    /\ LET attached == lead.dataPoints.qualityMetrics[1]
           computed == calculateQualityMetrics(lead)
       IN  /\ attached.completeness = computed.completeness
           /\ attached.reliability = computed.reliability
           /\ attached.overallQuality = computed.overallQuality

\* C27: the quality metrics attached to each record processLeads returns
\* (completeness, reliability, overallQuality) are the quality formulas
\* applied to that record's final merged fields and merged sources.
C27_MetricsOfMergedRecord ==
    pc = "cleaned" =>
        \A i \in 1..Len(cleanedLeads) : MetricsMatchRecord(cleanedLeads[i])

(***************************************************************************)
(* The records deduplicateLeads returns: properties under DedupLoopSpec    *)
(***************************************************************************)
\* C28: when deduplicateLeads returns, no two of its records score above
\* the merge threshold (85) against each other, merges that filled fields
\* of earlier records included.
C28_NoDuplicatesAmongRecords ==
    leadIndex = Len(qualityAssessedList) =>
        \A i, j \in 1..Len(uniqueLeads) :
            i # j => calculateSimilarity(uniqueLeads[i], uniqueLeads[j]) <= 85

(***************************************************************************)
(* StageSpec: one per-item stage, its tasks in the limiter settling in any *)
(* order, and Promise.all over them                                        *)
(***************************************************************************)
StageNames == {"verification", "enrichment", "social", "scoring"}

\* What the call inside the task of one lead can come to
TaskOutcomes(name) ==
    CASE name = "verification" ->
            {[kind |-> "returns", env |-> [dns |-> "mx", external |-> "valid"]],
             [kind |-> "returns", env |-> [dns |-> "error", external |-> "unknown"]],
             [kind |-> "throws"]}
      [] name = "enrichment" -> {[kind |-> "returns"]}
      [] name = "social" ->
            {[kind |-> "returns", signals |-> outcome] : outcome \in SocialOutcomes}
                \cup {[kind |-> "throws"]}
      [] OTHER ->
            {[kind |-> "returns", analysis |-> outcome] : outcome \in ScoringOutcomes}

\* The value the task of one lead resolves to: the try branch, or the catch
\* branch that returns the lead (with the default rating in scoring)
TaskValue(name, lead, outcome) ==
    CASE name = "verification" ->
            IF outcome.kind = "throws" THEN lead ELSE verifyLead(lead, outcome.env)
      [] name = "enrichment" -> enrichLead(lead)
      [] name = "social" ->
            IF outcome.kind = "throws" THEN lead ELSE socialLead(lead, outcome.signals)
      [] OTHER -> scoreLead(lead, outcome.analysis)

QueuedTask == [state |-> "queued", value |-> <<>>]

RunningTask == [state |-> "running", value |-> <<>>]

SettledTask(value) == [state |-> "settled", value |-> <<value>>]

\* A combinator that hands the values back in the order the tasks settled.
ValuesInCompletionOrder(results, order) ==
    [k \in 1..Len(order) |-> results[order[k]].value[1]]

\* Promise.all(tasks): the values by the position of the task in the array
PromiseAll(results, order) ==
    [i \in 1..Len(results) |-> results[i].value[1]]

StageLeads ==
    <<Candidate("linkedin", EmailLower, NameLee, CompanyAcme, PhoneOne, <<>>),
      Candidate("apollo", EmailKim, NameKim, <<>>, PhoneTwo, <<>>),
      Candidate("zoominfo", <<>>, NameLeo, CompanyAcme, <<>>, <<>>),
      MalformedContact>>

\* the lists a stage is called with
StageInputs ==
    {StageLeads,
     <<StageLeads[4], StageLeads[2], StageLeads[1], StageLeads[3]>>,
     <<StageLeads[2], StageLeads[1]>>}

\* leads.map(lead => this.rateLimiter.schedule(...)): every task is queued
StageInit ==
    /\ pc = "idle"
    /\ rawLeads = <<>>
    /\ cleanedLeads = <<>>
    /\ NoStageResults
    /\ SimIdle
    /\ CampaignIdle
    /\ taskStage \in StageNames
    /\ taskInput \in StageInputs
    /\ taskResults = [i \in 1..Len(taskInput) |-> QueuedTask]
    /\ completed = <<>>
    /\ stageOutput = <<>>

TasksIn(state) == {i \in 1..Len(taskResults) : taskResults[i].state = state}

\* The limiter starts the job queued first while fewer than maxConcurrent
\* jobs are running
LaunchTask ==
    /\ taskStage \in StageNames
    /\ TasksIn("queued") # {}
    /\ Cardinality(TasksIn("running")) < maxConcurrentRequests
    /\ LET i == CHOOSE j \in TasksIn("queued") : \A k \in TasksIn("queued") : j <= k
       IN  taskResults' = [taskResults EXCEPT ![i] = RunningTask]
    /\ UNCHANGED <<runVars, simVars, dedupVars, contactVars, campaignVars,
                   taskStage, taskInput, completed, stageOutput>>

\* A running task settles: its call returns or throws, the task resolves
SettleTask ==
    /\ \E i \in TasksIn("running"), outcome \in TaskOutcomes(taskStage) :
        /\ taskResults' =
              [taskResults EXCEPT
                  ![i] = SettledTask(TaskValue(taskStage, taskInput[i], outcome))]
        /\ completed' = Append(completed, i)
    /\ UNCHANGED <<runVars, simVars, dedupVars, contactVars, campaignVars,
                   taskStage, taskInput, stageOutput>>

\* return Promise.all(tasks): every task has settled
ResolveStage ==
    /\ taskStage \in StageNames
    /\ stageOutput = <<>>
    /\ TasksIn("settled") = 1..Len(taskResults)
    /\ stageOutput' = <<PromiseAll(taskResults, completed)>>
    /\ UNCHANGED <<runVars, simVars, dedupVars, contactVars, campaignVars,
                   taskStage, taskInput, taskResults, completed>>

StageNext ==
    \/ LaunchTask
    \/ SettleTask
    \/ ResolveStage

StageSpec == StageInit /\ [][StageNext]_vars

DerivedFrom(name, lead) ==
    {TaskValue(name, lead, outcome) : outcome \in TaskOutcomes(name)}

\* C29: whatever the order in which the tasks of a per-item stage settle and
\* whichever of their calls throw, the stage returns a list as long as its
\* input whose position i is what the task of input item i resolved to, a
\* value derived from item i; no stage drops a lead.
C29_StageKeepsPositions ==
    stageOutput # <<>> =>
        /\ Len(stageOutput[1]) = Len(taskInput)
        /\ \A i \in 1..Len(taskInput) :
            /\ stageOutput[1][i] = taskResults[i].value[1]
            /\ stageOutput[1][i] \in DerivedFrom(taskStage, taskInput[i])

\* a stage that resolved although its tasks settled out of order and the
\* call of one of them threw
C29_Witness ==
    /\ stageOutput # <<>>
    /\ Len(taskInput) = 4
    /\ completed[1] # 1
    /\ \E i \in 1..Len(completed) : i < Len(completed) /\ completed[i] > completed[i + 1]
    /\ taskStage = "social"
    /\ \E i \in 1..Len(taskInput) : stageOutput[1][i] = taskInput[i]

(***************************************************************************)
(* CampaignSpec: POST /research/:campaignId and the background runs it     *)
(* starts; prisma.campaign.update is taken to succeed                      *)
(***************************************************************************)
\* the research requests for the campaign
MaxRuns == 2

Runs == 1..MaxRuns

\* A save that logs the error of createMany and returns.
SaveSwallowingError(outcome) == "returns"

\* saveLeadsToDatabase: the catch logs and rethrows
saveLeadsToDatabase(outcome) ==
    IF outcome = "stored" THEN "returns" ELSE "throws"

CampaignInit ==
    /\ pc = "idle"
    /\ rawLeads = <<>>
    /\ cleanedLeads = <<>>
    /\ NoStageResults
    /\ SimIdle
    /\ TaskIdle
    /\ campaignStatus \in {"DRAFT", "COMPLETED"}
    /\ runPc = [r \in Runs |-> "none"]
    /\ writes = [r \in Runs |-> <<>>]
    /\ leadsSaved = [r \in Runs |-> FALSE]
    /\ thrown = [r \in Runs |-> "none"]

\* a client posts to /research/:campaignId
Request(r) ==
    /\ runPc[r] = "none"
    /\ runPc' = [runPc EXCEPT ![r] = "request"]
    /\ UNCHANGED <<runVars, simVars, dedupVars, contactVars, taskVars,
                   campaignStatus, writes, leadsSaved, thrown>>

\* prisma.campaign.findFirst: no campaign answers 404, an exception 500
FindCampaign(r) ==
    /\ runPc[r] = "request"
    /\ \E outcome \in {"found", "missing", "throws"} :
        runPc' = [runPc EXCEPT ![r] = IF outcome = "found" THEN "found" ELSE "rejected"]
    /\ UNCHANGED <<runVars, simVars, dedupVars, contactVars, taskVars,
                   campaignStatus, writes, leadsSaved, thrown>>

\* status becomes RESEARCHING, setImmediate queues the background run, the
\* response is sent
SetResearching(r) ==
    /\ runPc[r] = "found"
    /\ campaignStatus' = "RESEARCHING"
    /\ runPc' = [runPc EXCEPT ![r] = "scheduled"]
    /\ UNCHANGED <<runVars, simVars, dedupVars, contactVars, taskVars,
                   writes, leadsSaved, thrown>>

\* conductLeadResearch: prisma.user.findUnique throws, finds no user (the
\* function throws 'User not found') or finds the user
FindUser(r) ==
    /\ runPc[r] = "scheduled"
    /\ \E outcome \in {"found", "missing", "throws"} :
        IF outcome = "found"
        THEN /\ runPc' = [runPc EXCEPT ![r] = "research"]
             /\ UNCHANGED thrown
        ELSE /\ runPc' = [runPc EXCEPT ![r] = "failing"]
             /\ thrown' = [thrown EXCEPT ![r] = "user"]
    /\ UNCHANGED <<runVars, simVars, dedupVars, contactVars, taskVars,
                   campaignStatus, writes, leadsSaved>>

\* await LeadResearchService.conductResearch(...)
ConductResearch(r) ==
    /\ runPc[r] = "research"
    /\ \E outcome \in {"returns", "throws"} :
        IF outcome = "returns"
        THEN /\ runPc' = [runPc EXCEPT ![r] = "save"]
             /\ UNCHANGED thrown
        ELSE /\ runPc' = [runPc EXCEPT ![r] = "failing"]
             /\ thrown' = [thrown EXCEPT ![r] = "research"]
    /\ UNCHANGED <<runVars, simVars, dedupVars, contactVars, taskVars,
                   campaignStatus, writes, leadsSaved>>

\* await LeadResearchService.saveLeadsToDatabase(...): createMany stores the
\* leads or rejects
SaveLeads(r) ==
    /\ runPc[r] = "save"
    /\ \E outcome \in {"stored", "rejects"} :
        /\ leadsSaved' = [leadsSaved EXCEPT ![r] = (outcome = "stored")]
        /\ IF saveLeadsToDatabase(outcome) = "returns"
           THEN /\ runPc' = [runPc EXCEPT ![r] = "completing"]
                /\ UNCHANGED thrown
           ELSE /\ runPc' = [runPc EXCEPT ![r] = "failing"]
                /\ thrown' = [thrown EXCEPT ![r] = "save"]
    /\ UNCHANGED <<runVars, simVars, dedupVars, contactVars, taskVars,
                   campaignStatus, writes>>

\* the try block's last statement: status becomes COMPLETED
WriteCompleted(r) ==
    /\ runPc[r] = "completing"
    /\ campaignStatus' = "COMPLETED"
    /\ writes' = [writes EXCEPT ![r] = Append(@, "COMPLETED")]
    /\ runPc' = [runPc EXCEPT ![r] = "done"]
    /\ UNCHANGED <<runVars, simVars, dedupVars, contactVars, taskVars,
                   leadsSaved, thrown>>

\* the catch block: status becomes FAILED
WriteFailed(r) ==
    /\ runPc[r] = "failing"
    /\ campaignStatus' = "FAILED"
    /\ writes' = [writes EXCEPT ![r] = Append(@, "FAILED")]
    /\ runPc' = [runPc EXCEPT ![r] = "done"]
    /\ UNCHANGED <<runVars, simVars, dedupVars, contactVars, taskVars,
                   leadsSaved, thrown>>

\* the steps of the handler and of its background run
RunStep(r) ==
    \/ FindCampaign(r)
    \/ SetResearching(r)
    \/ FindUser(r)
    \/ ConductResearch(r)
    \/ SaveLeads(r)
    \/ WriteCompleted(r)
    \/ WriteFailed(r)

CampaignNext ==
    \/ \E r \in Runs : Request(r)
    \/ \E r \in Runs : FindCampaign(r)
    \/ \E r \in Runs : SetResearching(r)
    \/ \E r \in Runs : FindUser(r)
    \/ \E r \in Runs : ConductResearch(r)
    \/ \E r \in Runs : SaveLeads(r)
    \/ \E r \in Runs : WriteCompleted(r)
    \/ \E r \in Runs : WriteFailed(r)

CampaignSpec == CampaignInit /\ [][CampaignNext]_vars

\* The event loop runs every queued callback and every awaited call settles:
\* a handler or a background run that can take its next step takes it.
CampaignFairSpec == CampaignSpec /\ \A r \in Runs : WF_vars(RunStep(r))

WroteFinalStatus(r) == writes[r] # <<>> /\ writes[r][1] \in {"COMPLETED", "FAILED"}

CompletedOnlyAfterSave ==
    \A r \in Runs :
        (\E k \in 1..Len(writes[r]) : writes[r][k] = "COMPLETED")
            => leadsSaved[r] /\ thrown[r] = "none"

OneFinalStatusPerRun == \A r \in Runs : Len(writes[r]) <= 1

\* C30: once the endpoint has set RESEARCHING and queued the background run,
\* the run eventually writes COMPLETED or FAILED; COMPLETED is written only
\* after the leads were stored, a run in which the user lookup, the research
\* or the save threw writes FAILED, and no run writes both statuses.
C30_RunEndsCompletedOrFailed ==
    /\ \A r \in Runs : (runPc[r] = "scheduled") ~> WroteFinalStatus(r)
    /\ \A r \in Runs : (thrown[r] # "none") ~> (writes[r] = <<"FAILED">>)
    /\ [](CompletedOnlyAfterSave /\ OneFinalStatusPerRun)

\* two runs of the campaign have ended, one after a save that rejected and
\* one with the leads stored
C30_Witness ==
    \E r, q \in Runs :
        /\ runPc[r] = "done" /\ thrown[r] = "save" /\ writes[r] = <<"FAILED">>
        /\ runPc[q] = "done" /\ leadsSaved[q] /\ writes[q] = <<"COMPLETED">>

====
